---- MODULE Spec2Model ----
(***************************************************************************)
(* A model of the nyxstack/openapi document builder: the root Document and *)
(* its builders (document.go), the polymorphic AdditionalProperties field  *)
(* with its custom JSON encoding (schema.go), and the JSON encoding of the *)
(* model as encoding/json derives it from the struct tags.                 *)
(*                                                                         *)
(* Go values are modelled as follows.                                      *)
(*   - a nilable value (pointer, map, slice) is Nil or Some(v);            *)
(*   - a map is a function from its keys, a slice is a sequence;           *)
(*   - a struct is a record of the fields the properties below read;       *)
(*   - a JSON value is a tagged record (JNull, JBool, JNum, JStr, JArr,    *)
(*     JObj); an object is a function from its keys, so key order is not   *)
(*     modelled;                                                           *)
(*   - a Go string is a TLA+ string.                                       *)
(***************************************************************************)
EXTENDS Integers, Sequences, FiniteSets, TLC

VARIABLES
    ap,      \* the AdditionalProperties receiver
    data,    \* the JSON value last produced by, or given to, the receiver
    err,     \* the error returned by the last call on the receiver
    apLast,  \* the last call on the receiver: its name, inputs and pre-state
    doc,     \* the Document the caller holds a pointer to
    created, \* the arguments NewDocument was called with
    calls,   \* how many builder calls have been made on doc
    ret,     \* what the last builder call returned
    last,    \* the last builder call: its name, arguments and the Document before it
    rt,      \* the last ToJSON output of doc and the Document decoded from it
    val,     \* the value of a nested type a chain of With calls has built so far
    kept,    \* the receiver of the last With call, as its caller reads it afterwards
    vlast,   \* the last With call: its name and its receiver before the call
    panicked, \* a With call has inserted into a nil map
    steps,   \* how many With calls have been made on val
    sdoc,    \* the Document the Operation val was added to with AddOperation
    snap,    \* the Operation val as it was when it was added, by method
    mem,     \* the heap two callers' Documents live in: the object at each address
    dptr,    \* the *Document each of the two callers holds
    hist,    \* the builder calls each of the two callers has made, in order
    out,     \* the last ToJSON output each of the two callers got
    turn,    \* who called last, and how often the callers have taken turns
    rdoc,    \* the Document two goroutines call AddOperation on
    req,     \* the arguments of each goroutine's AddOperation call
    pc,      \* where each goroutine is in its AddOperation call
    held,    \* the PathItem each goroutine's pathItem pointer leads to
    log,     \* the steps the goroutines have taken, in order
    pptr,    \* the PathItem the *PathItem the caller got from AddPath or GetPath leads to
    heap,    \* the backing arrays of the Tags slices: the elements of each, up to its capacity
    base,    \* the Tags slice of the Operation the builders are called on
    derived  \* the Tags slices of the Operations derived from it, in the order they were made

apVars == <<ap, data, err, apLast>>

docVars == <<doc, created, calls, ret, last, rt>>

valVars == <<val, kept, vlast, panicked, steps, sdoc, snap>>

twoVars == <<mem, dptr, hist, out, turn>>

raceVars == <<rdoc, req, pc, held, log>>

pathVars == <<pptr>>

sliceVars == <<heap, base, derived>>

vars ==
    <<ap, data, err, apLast, doc, created, calls, ret, last, rt,
      val, kept, vlast, panicked, steps, sdoc, snap, mem, dptr, hist, out, turn,
      rdoc, req, pc, held, log, pptr, heap, base, derived>>

----------------------------------------------------------------------------
(* Nilable values *)

Nil == <<>>

Some(v) == <<v>>

IsNil(o) == o = Nil

Val(o) == o[1]

\* the empty map (make(map[K]V)) and the insert m[k] = v
EmptyMap == [k \in {} |-> Nil]

MapPut(m, key, v) == [k \in (DOMAIN m) \cup {key} |-> IF k = key THEN v ELSE m[k]]

----------------------------------------------------------------------------
(* JSON values *)

JNull == [k |-> "null"]

JBool(b) == [k |-> "bool", b |-> b]

JNum(n) == [k |-> "number", n |-> n]

JStr(s) == [k |-> "string", s |-> s]

JArr(a) == [k |-> "array", a |-> a]

JObj(o) == [k |-> "object", o |-> o]

\* json.Marshal of a Go string: a JSON string (strings are text here: no invalid
\* UTF-8, which the encoder would replace)
EncodeString(s) == JStr(s)

----------------------------------------------------------------------------
(* Decode errors *)

NoError == [kind |-> "nil"]

\* *json.UnmarshalTypeError: the JSON value's kind, the Go type that could
\* not hold it, and the struct field being decoded ("" at the top level)
TypeError(value, type, field) ==
    [kind |-> "UnmarshalTypeError", Value |-> value, Type |-> type, Field |-> field]

Ok(v) == [err |-> NoError, val |-> v]

Fail(e) == [err |-> e]

IsOk(r) == r.err = NoError

----------------------------------------------------------------------------
(* Schema and AdditionalProperties (schema.go) *)

\* the Schema fields the properties below read
ZeroSchema ==
    [Type |-> "", Maximum |-> Nil, Minimum |-> Nil, MaxLength |-> Nil,
     MinLength |-> Nil, MaxItems |-> Nil, MinItems |-> Nil, Required |-> Nil,
     Properties |-> Nil, AdditionalProperties |-> Nil]

\* the pointer-typed numeric constraints of a Schema, each under its JSON key
ConstraintField ==
    [maximum |-> "Maximum", minimum |-> "Minimum", maxLength |-> "MaxLength",
     minLength |-> "MinLength", maxItems |-> "MaxItems", minItems |-> "MinItems"]

\* the Go type a constraint points to
ConstraintType ==
    [maximum |-> "float64", minimum |-> "float64", maxLength |-> "int",
     minLength |-> "int", maxItems |-> "int", minItems |-> "int"]

\* the zero AdditionalProperties: neither alternative populated
ZeroAP == [Bool |-> Nil, Schema |-> Nil]

RECURSIVE EncodeSchema(_), MarshalJSON(_), DecodeSchema(_), UnmarshalJSON(_, _)

\* json.Marshal of a map[string]*Schema
EncodeProperties(m) == JObj([k \in DOMAIN m |-> EncodeSchema(m[k])])

\* json.Marshal of a []string
EncodeStrings(a) == JArr([i \in 1..Len(a) |-> EncodeString(a[i])])

\* the keys json.Marshal writes for a Schema: every field is omitempty, so a
\* field is written when it is not "", nil or an empty collection
SchemaKeys(s) ==
    {k \in {"type", "required", "properties", "additionalProperties"}
            \cup DOMAIN ConstraintField :
        \/ k = "type" /\ s.Type # ""
        \/ k \in DOMAIN ConstraintField /\ ~IsNil(s[ConstraintField[k]])
        \/ k = "required" /\ ~IsNil(s.Required) /\ Len(Val(s.Required)) > 0
        \/ k = "properties" /\ ~IsNil(s.Properties) /\ DOMAIN Val(s.Properties) # {}
        \/ k = "additionalProperties" /\ ~IsNil(s.AdditionalProperties)}

\* a mutant of EncodeSchema: minLength is dropped when it is 0, as it would be
\* for an int field tagged omitempty
EncodeSchemaOmitZero(s) ==
    JObj([k \in {x \in SchemaKeys(s) : x = "minLength" => Val(s.MinLength) # 0} |->
        CASE k = "type" -> EncodeString(s.Type)
          [] k \in DOMAIN ConstraintField -> JNum(Val(s[ConstraintField[k]]))
          [] k = "required" -> EncodeStrings(Val(s.Required))
          [] k = "properties" -> EncodeProperties(Val(s.Properties))
          [] k = "additionalProperties" -> MarshalJSON(Val(s.AdditionalProperties))])

\* json.Marshal of a Schema
EncodeSchema(s) ==
    JObj([k \in SchemaKeys(s) |->
        CASE k = "type" -> EncodeString(s.Type)
          [] k \in DOMAIN ConstraintField -> JNum(Val(s[ConstraintField[k]]))
          [] k = "required" -> EncodeStrings(Val(s.Required))
          [] k = "properties" -> EncodeProperties(Val(s.Properties))
          [] k = "additionalProperties" -> MarshalJSON(Val(s.AdditionalProperties))])

\* a mutant of MarshalJSON: the schema alternative is looked at first
MarshalJSONSchemaFirst(a) ==
    IF ~IsNil(a.Schema) THEN EncodeSchema(Val(a.Schema))
    ELSE IF ~IsNil(a.Bool) THEN JBool(Val(a.Bool))
    ELSE JBool(FALSE)

\* AdditionalProperties.MarshalJSON
MarshalJSON(a) ==
    IF ~IsNil(a.Bool) THEN JBool(Val(a.Bool))
    ELSE IF ~IsNil(a.Schema) THEN EncodeSchema(Val(a.Schema))
    ELSE JBool(FALSE)

\* json.Unmarshal(data, &boolVal) with boolVal the zero bool: a JSON boolean is
\* stored, the JSON null leaves boolVal as it is, anything else is a type error
DecodeBool(j) ==
    CASE j.k = "bool" -> Ok(j.b)
      [] j.k = "null" -> Ok(FALSE)
      [] OTHER -> Fail(TypeError(j.k, "bool", ""))

\* the Type field: a string
DecodeType(o) ==
    IF "type" \notin DOMAIN o \/ o["type"].k = "null" THEN Ok("")
    ELSE IF o["type"].k = "string" THEN Ok(o["type"].s)
    ELSE Fail(TypeError(o["type"].k, "string", "Schema.type"))

\* a mutant of DecodeConstraint: the field is a plain number, and 0 reads as
\* unset
DecodeConstraintZeroUnset(o, key) ==
    IF key \notin DOMAIN o \/ o[key].k = "null" THEN Ok(Nil)
    ELSE IF o[key].k = "number"
    THEN Ok(IF o[key].n = 0 THEN Nil ELSE Some(o[key].n))
    ELSE Fail(TypeError(o[key].k, ConstraintType[key], "Schema." \o key))

\* a constraint field, a *int or a *float64 (the numbers here are whole)
DecodeConstraint(o, key) ==
    IF key \notin DOMAIN o \/ o[key].k = "null" THEN Ok(Nil)
    ELSE IF o[key].k = "number" THEN Ok(Some(o[key].n))
    ELSE Fail(TypeError(o[key].k, ConstraintType[key], "Schema." \o key))

\* the MinLength field: a *int
DecodeMinLength(o) == DecodeConstraint(o, "minLength")

\* the Required field: a []string
DecodeRequired(o) ==
    IF "required" \notin DOMAIN o \/ o["required"].k = "null" THEN Ok(Nil)
    ELSE IF o["required"].k # "array"
    THEN Fail(TypeError(o["required"].k, "[]string", "Schema.required"))
    ELSE LET a == o["required"].a
             bad == {i \in 1..Len(a) : a[i].k \notin {"string", "null"}}
         IN IF bad # {}
            THEN Fail(TypeError(a[CHOOSE i \in bad : \A x \in bad : i <= x].k,
                                "string", "Schema.required"))
            ELSE Ok(Some([i \in 1..Len(a) |-> IF a[i].k = "null" THEN "" ELSE a[i].s]))

\* the Properties field: a map[string]*Schema
DecodeProperties(o) ==
    IF "properties" \notin DOMAIN o \/ o["properties"].k = "null" THEN Ok(Nil)
    ELSE IF o["properties"].k # "object"
    THEN Fail(TypeError(o["properties"].k, "map[string]*openapi.Schema",
                        "Schema.properties"))
    ELSE LET m == o["properties"].o
             bad == {k \in DOMAIN m : ~IsOk(DecodeSchema(m[k]))}
         IN IF bad # {}
            THEN Fail(DecodeSchema(m[CHOOSE k \in bad : TRUE]).err)
            ELSE Ok(Some([k \in DOMAIN m |-> DecodeSchema(m[k]).val]))

\* the AdditionalProperties field: a *AdditionalProperties. The JSON null sets
\* the pointer to nil; any other value is handed to UnmarshalJSON on a new value
DecodeAdditionalProperties(o) ==
    IF "additionalProperties" \notin DOMAIN o \/ o["additionalProperties"].k = "null"
    THEN Ok(Nil)
    ELSE LET r == UnmarshalJSON(ZeroAP, o["additionalProperties"])
         IN IF r.err = NoError THEN Ok(Some(r.ap))
            ELSE Fail([r.err EXCEPT !.Field = "Schema.additionalProperties"])

\* json.Unmarshal(data, &schema) with schema the zero Schema. Keys that name
\* no field are skipped. When several fields fail, the error reported here is
\* the first in the order below (encoding/json reports the first in input order).
DecodeSchema(j) ==
    IF j.k = "null" THEN Ok(ZeroSchema)
    ELSE IF j.k # "object" THEN Fail(TypeError(j.k, "openapi.Schema", ""))
    ELSE LET t == DecodeType(j.o)
             n == DecodeMinLength(j.o)
             c == [key \in DOMAIN ConstraintField \ {"minLength"} |->
                      DecodeConstraint(j.o, key)]
             bad == {key \in DOMAIN c : ~IsOk(c[key])}
             r == DecodeRequired(j.o)
             p == DecodeProperties(j.o)
             a == DecodeAdditionalProperties(j.o)
         IN CASE ~IsOk(t) -> t
              [] ~IsOk(n) -> n
              [] bad # {} -> c[CHOOSE key \in bad : TRUE]
              [] ~IsOk(r) -> r
              [] ~IsOk(p) -> p
              [] ~IsOk(a) -> a
              [] OTHER -> Ok([Type |-> t.val, Maximum |-> c["maximum"].val,
                              Minimum |-> c["minimum"].val,
                              MaxLength |-> c["maxLength"].val,
                              MinLength |-> n.val, MaxItems |-> c["maxItems"].val,
                              MinItems |-> c["minItems"].val, Required |-> r.val,
                              Properties |-> p.val, AdditionalProperties |-> a.val])

\* a mutant of UnmarshalJSON: the boolean branch does not clear Schema and the
\* schema branch does not clear Bool
UnmarshalJSONNoClear(a, j) ==
    IF IsOk(DecodeBool(j))
    THEN [ap |-> [a EXCEPT !.Bool = Some(DecodeBool(j).val)], err |-> NoError]
    ELSE IF IsOk(DecodeSchema(j))
    THEN [ap |-> [a EXCEPT !.Schema = Some(DecodeSchema(j).val)], err |-> NoError]
    ELSE [ap |-> a, err |-> DecodeBool(j).err]

\* a mutant of UnmarshalJSON: the error returned is the schema attempt's
UnmarshalJSONSchemaError(a, j) ==
    IF IsOk(DecodeBool(j))
    THEN [ap |-> [Bool |-> Some(DecodeBool(j).val), Schema |-> Nil], err |-> NoError]
    ELSE IF IsOk(DecodeSchema(j))
    THEN [ap |-> [Bool |-> Nil, Schema |-> Some(DecodeSchema(j).val)], err |-> NoError]
    ELSE [ap |-> a, err |-> DecodeSchema(j).err]

\* a mutant of UnmarshalJSON: the receiver is cleared before the attempts
UnmarshalJSONClearFirst(a, j) ==
    IF IsOk(DecodeBool(j))
    THEN [ap |-> [Bool |-> Some(DecodeBool(j).val), Schema |-> Nil], err |-> NoError]
    ELSE IF IsOk(DecodeSchema(j))
    THEN [ap |-> [Bool |-> Nil, Schema |-> Some(DecodeSchema(j).val)], err |-> NoError]
    ELSE [ap |-> ZeroAP, err |-> DecodeBool(j).err]

\* AdditionalProperties.UnmarshalJSON on the receiver a: the receiver after the
\* call and the error returned
UnmarshalJSON(a, j) ==
    IF IsOk(DecodeBool(j))
    THEN [ap |-> [Bool |-> Some(DecodeBool(j).val), Schema |-> Nil], err |-> NoError]
    ELSE IF IsOk(DecodeSchema(j))
    THEN [ap |-> [Bool |-> Nil, Schema |-> Some(DecodeSchema(j).val)], err |-> NoError]
    ELSE [ap |-> a, err |-> DecodeBool(j).err]

----------------------------------------------------------------------------
(* Operation and Response (operation.go, response.go) *)

\* NewResponse
NewResponse(description) ==
    [Description |-> description, Headers |-> Some(EmptyMap),
     Content |-> Some(EmptyMap), Links |-> Some(EmptyMap)]

\* NewJSONResponse: schema is a *Schema
NewJSONResponse(description, schema) ==
    [Description |-> description, Headers |-> Nil,
     Content |-> Some([k \in {"application/json"} |->
                        [Schema |-> schema, Examples |-> Nil, Encoding |-> Nil]]),
     Links |-> Nil]

\* NewPathParameter: schema is a *Schema
NewPathParameter(name, description, schema) ==
    [Name |-> name, In |-> "path", Description |-> description, Required |-> TRUE,
     Schema |-> schema, Examples |-> Nil, Content |-> Nil]

\* NewOperation
NewOperation(operationID, summary, description) ==
    [Tags |-> Some(<<>>), Summary |-> summary, Description |-> description,
     OperationID |-> operationID, Parameters |-> Some(<<>>),
     Responses |-> Some(EmptyMap)]

\* append(s, x) on a slice that may be nil
Append1(s, x) == IF IsNil(s) THEN Some(<<x>>) ELSE Some(Append(Val(s), x))

\* Operation.WithTag, as the value it returns
WithTag(o, tag) == [o EXCEPT !.Tags = Append1(@, tag)]

\* Operation.WithParameter, as the value it returns
WithParameter(o, param) == [o EXCEPT !.Parameters = Append1(@, param)]

\* Operation.WithResponse, as the value it returns (the receiver's Responses is
\* non-nil: it comes from NewOperation)
WithResponse(o, code, description, response) ==
    [o EXCEPT !.Responses = Some(MapPut(Val(@), code, response))]

----------------------------------------------------------------------------
(* Document and its builders (document.go) *)

\* the address NewDocument's result lives at; a builder that returns d returns it
Self == [ptr |-> "Document", addr |-> 1]

\* PathItem{}: the eight method slots AddOperation dispatches to, all unset
EmptyPathItem ==
    [Get |-> Nil, Post |-> Nil, Put |-> Nil, Delete |-> Nil,
     Patch |-> Nil, Head |-> Nil, Options |-> Nil, Trace |-> Nil]

Slots == {"Get", "Post", "Put", "Delete", "Patch", "Head", "Options", "Trace"}

\* a mutant of NewDocument: the Tags list is left nil
NewDocumentNilTags(title, version) ==
    [OpenAPI |-> "3.0.3",
     Info |-> [Title |-> title, Version |-> version, Description |-> "",
               TermsOfService |-> "", Contact |-> Nil, License |-> Nil],
     Servers |-> Nil, Paths |-> Some(EmptyMap), Components |-> Nil,
     Security |-> Nil, Tags |-> Nil, ExternalDocs |-> Nil]

\* NewDocument
NewDocument(title, version) ==
    [OpenAPI |-> "3.0.3",
     Info |-> [Title |-> title, Version |-> version, Description |-> "",
               TermsOfService |-> "", Contact |-> Nil, License |-> Nil],
     Servers |-> Nil, Paths |-> Some(EmptyMap), Components |-> Nil,
     Security |-> Nil, Tags |-> Some(<<>>), ExternalDocs |-> Nil]

\* a mutant of WithInfo: the description is stored as the title
WithInfoAsTitle(d, description, termsOfService) ==
    [d EXCEPT !.Info.Title = description, !.Info.TermsOfService = termsOfService]

\* Document.WithInfo
WithInfo(d, description, termsOfService) ==
    [d EXCEPT !.Info.Description = description, !.Info.TermsOfService = termsOfService]

\* Document.WithContact
WithContact(d, name, url, email) ==
    [d EXCEPT !.Info.Contact = Some([Name |-> name, URL |-> url, Email |-> email])]

\* a mutant of WithLicense: Info is replaced by one that has only the license
WithLicenseNewInfo(d, name, url) ==
    [d EXCEPT !.Info = [Title |-> "", Version |-> "", Description |-> "",
                        TermsOfService |-> "", Contact |-> Nil,
                        License |-> Some([Name |-> name, URL |-> url])]]

\* Document.WithLicense
WithLicense(d, name, url) ==
    [d EXCEPT !.Info.License = Some([Name |-> name, URL |-> url])]

\* a mutant of AddServer: a server whose URL is in the list is not added again
AddServerOnce(d, url, description) ==
    IF ~IsNil(d.Servers) /\ \E i \in DOMAIN Val(d.Servers) : Val(d.Servers)[i].URL = url
    THEN d
    ELSE [d EXCEPT !.Servers =
             Append1(@, [URL |-> url, Description |-> description,
                         Variables |-> Some(EmptyMap)])]

\* Document.AddServer
AddServer(d, url, description) ==
    [d EXCEPT !.Servers =
        Append1(@, [URL |-> url, Description |-> description,
                    Variables |-> Some(EmptyMap)])]

\* Document.AddTag
AddTag(d, name, description) ==
    [d EXCEPT !.Tags =
        Append1(@, [Name |-> name, Description |-> description, ExternalDocs |-> Nil])]

\* Document.AddTagWithDocs
AddTagWithDocs(d, name, description, docsURL, docsDescription) ==
    [d EXCEPT !.Tags =
        Append1(@, [Name |-> name, Description |-> description,
                    ExternalDocs |-> Some([URL |-> docsURL,
                                           Description |-> docsDescription])])]

\* Document.SetExternalDocs
SetExternalDocs(d, url, description) ==
    [d EXCEPT !.ExternalDocs = Some([URL |-> url, Description |-> description])]

\* if d.Paths == nil { d.Paths = make(map[string]PathItem) }
EnsurePaths(d) == IF IsNil(d.Paths) THEN [d EXCEPT !.Paths = Some(EmptyMap)] ELSE d

\* a mutant of AddPath: an entry that is already there is kept
AddPathKeepExisting(d, path) ==
    IF ~IsNil(d.Paths) /\ path \in DOMAIN Val(d.Paths)
    THEN [doc |-> d, item |-> Val(d.Paths)[path]]
    ELSE [doc |-> [d EXCEPT !.Paths =
                       Some(MapPut(Val(EnsurePaths(d).Paths), path, EmptyPathItem))],
          item |-> EmptyPathItem]

\* Document.AddPath: the Document after the call and the PathItem the returned
\* pointer points to (a copy of the stored entry)
AddPath(d, path) ==
    [doc |-> [d EXCEPT !.Paths = Some(MapPut(Val(EnsurePaths(d).Paths), path, EmptyPathItem))],
     item |-> EmptyPathItem]

\* Document.GetPath: as AddPath
GetPath(d, path) ==
    IF ~IsNil(d.Paths) /\ path \in DOMAIN Val(d.Paths)
    THEN [doc |-> d, item |-> Val(d.Paths)[path]]
    ELSE AddPath(EnsurePaths(d), path)

\* a mutant of SetPath: the receiver is taken by value, the entry is stored in a
\* copy and the Document the caller holds is left as it was
SetPathByValue(d, path, pathItem) == d

\* Document.SetPath
SetPath(d, path, pathItem) ==
    [d EXCEPT !.Paths = Some(MapPut(Val(EnsurePaths(d).Paths), path, pathItem))]

\* the switch of AddOperation: the PathItem with the slot the method names set
\* to the operation, and unchanged when the method names none
Dispatch(item, method, operation) ==
    CASE method = "GET" -> [item EXCEPT !.Get = Some(operation)]
      [] method = "POST" -> [item EXCEPT !.Post = Some(operation)]
      [] method = "PUT" -> [item EXCEPT !.Put = Some(operation)]
      [] method = "DELETE" -> [item EXCEPT !.Delete = Some(operation)]
      [] method = "PATCH" -> [item EXCEPT !.Patch = Some(operation)]
      [] method = "HEAD" -> [item EXCEPT !.Head = Some(operation)]
      [] method = "OPTIONS" -> [item EXCEPT !.Options = Some(operation)]
      [] method = "TRACE" -> [item EXCEPT !.Trace = Some(operation)]
      [] OTHER -> item

\* a mutant of AddOperation: the PathItem is taken from AddPath, not GetPath
AddOperationFreshItem(d, path, method, operation) ==
    LET got == AddPath(d, path)
    IN [got.doc EXCEPT !.Paths =
            Some(MapPut(Val(@), path, Dispatch(got.item, method, operation)))]

\* a mutant of AddOperation: a method that names no slot is stored under GET
AddOperationDefaultGet(d, path, method, operation) ==
    LET got == GetPath(d, path)
        known == {"GET", "POST", "PUT", "DELETE", "PATCH", "HEAD", "OPTIONS", "TRACE"}
        item == IF method \in known THEN Dispatch(got.item, method, operation)
                ELSE [got.item EXCEPT !.Get = Some(operation)]
    IN [got.doc EXCEPT !.Paths = Some(MapPut(Val(@), path, item))]

\* Document.AddOperation
AddOperation(d, path, method, operation) ==
    LET got == GetPath(d, path)
    IN [got.doc EXCEPT !.Paths =
            Some(MapPut(Val(@), path, Dispatch(got.item, method, operation)))]

\* the Components value AddComponents installs
NewComponents ==
    [Schemas |-> Some(EmptyMap), Responses |-> Some(EmptyMap),
     Parameters |-> Some(EmptyMap), Examples |-> Some(EmptyMap),
     RequestBodies |-> Some(EmptyMap), Headers |-> Some(EmptyMap),
     SecuritySchemes |-> Some(EmptyMap), Links |-> Some(EmptyMap),
     Callbacks |-> Some(EmptyMap)]

\* a mutant of AddComponents: a new registry is installed on every call
AddComponentsReset(d) == [d EXCEPT !.Components = Some(NewComponents)]

\* Document.AddComponents: the Document after the call (the call returns
\* d.Components)
AddComponents(d) ==
    IF IsNil(d.Components) THEN [d EXCEPT !.Components = Some(NewComponents)] ELSE d

\* Document.AddSchema
AddSchema(d, name, schema) ==
    [AddComponents(d) EXCEPT !.Components =
        Some([Val(@) EXCEPT !.Schemas = Some(MapPut(Val(@), name, schema))])]

\* Document.AddSecurityScheme
AddSecurityScheme(d, name, scheme) ==
    [AddComponents(d) EXCEPT !.Components =
        Some([Val(@) EXCEPT !.SecuritySchemes = Some(MapPut(Val(@), name, scheme))])]

\* Document.AddSecurityRequirement
AddSecurityRequirement(d, requirement) ==
    [d EXCEPT !.Security = Append1(@, requirement)]

----------------------------------------------------------------------------
(* The JSON encoding of a Document, as encoding/json derives it from the      *)
(* struct tags: a field tagged omitempty is left out when it is "", false, a  *)
(* nil pointer or a nil or empty map or slice; any other field is always      *)
(* written, a nil map or pointer as null.                                     *)

\* a nil or empty map or slice
IsEmpty(c) == IsNil(c) \/ DOMAIN Val(c) = {}

\* a nilable value written without omitempty
EncodeOpt(o, Enc(_)) == IF IsNil(o) THEN JNull ELSE Enc(Val(o))

EncodeMap(m, Enc(_)) == JObj([key \in DOMAIN m |-> Enc(m[key])])

EncodeSeq(s, Enc(_)) == JArr([i \in 1..Len(s) |-> Enc(s[i])])

\* ExternalDocs
EncodeExternalDocs(e) ==
    JObj([key \in {"url"} \cup {x \in {"description"} : e.Description # ""} |->
        IF key = "url" THEN EncodeString(e.URL) ELSE EncodeString(e.Description)])

\* MediaType: its schema (no builder used here adds an example or an encoding:
\* Examples and Encoding hold no entry and are not written)
EncodeMediaType(m) ==
    JObj([key \in {x \in {"schema"} : ~IsNil(m.Schema)} |-> EncodeSchema(Val(m.Schema))])

\* Header: its description, required flag and schema (no builder used here
\* adds an example or a content entry to a header: those maps hold no entry
\* and are not written)
EncodeHeader(h) ==
    JObj([key \in {x \in {"description"} : h.Description # ""}
                  \cup {x \in {"required"} : h.Required}
                  \cup {x \in {"schema"} : ~IsNil(h.Schema)} |->
        CASE key = "description" -> EncodeString(h.Description)
          [] key = "required" -> JBool(h.Required)
          [] key = "schema" -> EncodeSchema(Val(h.Schema))])

\* Link: its parameters are runtime expressions, strings
EncodeLink(l) ==
    JObj([key \in {x \in {"operationRef"} : l.OperationRef # ""}
                  \cup {x \in {"operationId"} : l.OperationId # ""}
                  \cup {x \in {"parameters"} : ~IsEmpty(l.Parameters)}
                  \cup {x \in {"description"} : l.Description # ""} |->
        CASE key = "operationRef" -> EncodeString(l.OperationRef)
          [] key = "operationId" -> EncodeString(l.OperationId)
          [] key = "parameters" -> EncodeMap(Val(l.Parameters), EncodeString)
          [] key = "description" -> EncodeString(l.Description)])

\* a mutant of EncodeResponse: content is tagged without omitempty and is
\* always written
EncodeResponseContentAlways(r) ==
    JObj([key \in {"description", "content"}
                  \cup {x \in {"headers"} : ~IsEmpty(r.Headers)}
                  \cup {x \in {"links"} : ~IsEmpty(r.Links)} |->
        CASE key = "description" -> EncodeString(r.Description)
          [] key = "headers" -> EncodeMap(Val(r.Headers), EncodeHeader)
          [] key = "content" -> IF IsNil(r.Content) THEN JNull
                                ELSE EncodeMap(Val(r.Content), EncodeMediaType)
          [] key = "links" -> EncodeMap(Val(r.Links), EncodeLink)])

\* Response: description is always written; headers, content and links are
\* tagged omitempty and are written when they hold an entry
EncodeResponse(r) ==
    JObj([key \in {"description"}
                  \cup {x \in {"headers"} : ~IsEmpty(r.Headers)}
                  \cup {x \in {"content"} : ~IsEmpty(r.Content)}
                  \cup {x \in {"links"} : ~IsEmpty(r.Links)} |->
        CASE key = "description" -> EncodeString(r.Description)
          [] key = "headers" -> EncodeMap(Val(r.Headers), EncodeHeader)
          [] key = "content" -> EncodeMap(Val(r.Content), EncodeMediaType)
          [] key = "links" -> EncodeMap(Val(r.Links), EncodeLink)])

\* Parameter (Examples and Content hold no entry and are not written)
EncodeParameter(q) ==
    JObj([key \in {"name", "in"}
                  \cup {x \in {"description"} : q.Description # ""}
                  \cup {x \in {"required"} : q.Required}
                  \cup {x \in {"schema"} : ~IsNil(q.Schema)} |->
        CASE key = "name" -> EncodeString(q.Name)
          [] key = "in" -> EncodeString(q.In)
          [] key = "description" -> EncodeString(q.Description)
          [] key = "required" -> JBool(q.Required)
          [] key = "schema" -> EncodeSchema(Val(q.Schema))])

\* Operation: responses is always written
EncodeOperation(o) ==
    JObj([key \in {"responses"}
                  \cup {x \in {"tags"} : ~IsEmpty(o.Tags)}
                  \cup {x \in {"summary"} : o.Summary # ""}
                  \cup {x \in {"description"} : o.Description # ""}
                  \cup {x \in {"operationId"} : o.OperationID # ""}
                  \cup {x \in {"parameters"} : ~IsEmpty(o.Parameters)} |->
        CASE key = "responses" -> IF IsNil(o.Responses) THEN JNull
                                  ELSE EncodeMap(Val(o.Responses), EncodeResponse)
          [] key = "tags" -> EncodeSeq(Val(o.Tags), EncodeString)
          [] key = "summary" -> EncodeString(o.Summary)
          [] key = "description" -> EncodeString(o.Description)
          [] key = "operationId" -> EncodeString(o.OperationID)
          [] key = "parameters" -> EncodeSeq(Val(o.Parameters), EncodeParameter)])

\* the key of each method slot of a PathItem
SlotKey ==
    [Get |-> "get", Post |-> "post", Put |-> "put", Delete |-> "delete",
     Patch |-> "patch", Head |-> "head", Options |-> "options", Trace |-> "trace"]

\* PathItem: the slots that are set
EncodePathItem(item) ==
    JObj([key \in {SlotKey[s] : s \in {x \in Slots : ~IsNil(item[x])}} |->
        EncodeOperation(Val(item[CHOOSE s \in Slots : SlotKey[s] = key]))])

\* Contact
EncodeContact(c) ==
    JObj([key \in {x \in {"name"} : c.Name # ""}
                  \cup {x \in {"url"} : c.URL # ""}
                  \cup {x \in {"email"} : c.Email # ""} |->
        CASE key = "name" -> EncodeString(c.Name)
          [] key = "url" -> EncodeString(c.URL)
          [] key = "email" -> EncodeString(c.Email)])

\* License
EncodeLicense(l) ==
    JObj([key \in {"name"} \cup {x \in {"url"} : l.URL # ""} |->
        IF key = "name" THEN EncodeString(l.Name) ELSE EncodeString(l.URL)])

\* Info: title and version are always written
EncodeInfo(info) ==
    JObj([key \in {"title", "version"}
                  \cup {x \in {"description"} : info.Description # ""}
                  \cup {x \in {"termsOfService"} : info.TermsOfService # ""}
                  \cup {x \in {"contact"} : ~IsNil(info.Contact)}
                  \cup {x \in {"license"} : ~IsNil(info.License)} |->
        CASE key = "title" -> EncodeString(info.Title)
          [] key = "version" -> EncodeString(info.Version)
          [] key = "description" -> EncodeString(info.Description)
          [] key = "termsOfService" -> EncodeString(info.TermsOfService)
          [] key = "contact" -> EncodeContact(Val(info.Contact))
          [] key = "license" -> EncodeLicense(Val(info.License))])

\* Server (no builder adds a variable: Variables holds no entry)
EncodeServer(s) ==
    JObj([key \in {"url"} \cup {x \in {"description"} : s.Description # ""} |->
        IF key = "url" THEN EncodeString(s.URL) ELSE EncodeString(s.Description)])

\* Tag
EncodeTag(g) ==
    JObj([key \in {"name"}
                  \cup {x \in {"description"} : g.Description # ""}
                  \cup {x \in {"externalDocs"} : ~IsNil(g.ExternalDocs)} |->
        CASE key = "name" -> EncodeString(g.Name)
          [] key = "description" -> EncodeString(g.Description)
          [] key = "externalDocs" -> EncodeExternalDocs(Val(g.ExternalDocs))])

\* SecurityScheme
EncodeSecurityScheme(s) ==
    JObj([key \in {"type"}
                  \cup {x \in {"scheme"} : s.Scheme # ""}
                  \cup {x \in {"bearerFormat"} : s.BearerFormat # ""} |->
        CASE key = "type" -> EncodeString(s.Type)
          [] key = "scheme" -> EncodeString(s.Scheme)
          [] key = "bearerFormat" -> EncodeString(s.BearerFormat)])

EncodeScopes(scopes) == EncodeOpt(scopes, EncodeStrings)

\* SecurityRequirement: a map[string][]string
EncodeSecurityRequirement(r) == EncodeMap(r, EncodeScopes)

\* Components: of the nine maps the root builders fill Schemas and
\* SecuritySchemes; the other seven hold no entry and are not written
EncodeComponents(c) ==
    JObj([key \in {x \in {"schemas"} : ~IsEmpty(c.Schemas)}
                  \cup {x \in {"securitySchemes"} : ~IsEmpty(c.SecuritySchemes)} |->
        IF key = "schemas" THEN EncodeMap(Val(c.Schemas), EncodeSchema)
        ELSE EncodeMap(Val(c.SecuritySchemes), EncodeSecurityScheme)])

\* a mutant of EncodeDocument: paths is tagged omitempty
EncodeDocumentOmitEmptyPaths(d) ==
    JObj([key \in {"openapi", "info"}
                  \cup {x \in {"paths"} : ~IsEmpty(d.Paths)}
                  \cup {x \in {"servers"} : ~IsEmpty(d.Servers)}
                  \cup {x \in {"components"} : ~IsNil(d.Components)}
                  \cup {x \in {"security"} : ~IsEmpty(d.Security)}
                  \cup {x \in {"tags"} : ~IsEmpty(d.Tags)}
                  \cup {x \in {"externalDocs"} : ~IsNil(d.ExternalDocs)} |->
        CASE key = "openapi" -> EncodeString(d.OpenAPI)
          [] key = "info" -> EncodeInfo(d.Info)
          [] key = "paths" -> IF IsNil(d.Paths) THEN JNull
                              ELSE EncodeMap(Val(d.Paths), EncodePathItem)
          [] key = "servers" -> EncodeSeq(Val(d.Servers), EncodeServer)
          [] key = "components" -> EncodeComponents(Val(d.Components))
          [] key = "security" -> EncodeSeq(Val(d.Security), EncodeSecurityRequirement)
          [] key = "tags" -> EncodeSeq(Val(d.Tags), EncodeTag)
          [] key = "externalDocs" -> EncodeExternalDocs(Val(d.ExternalDocs))])

\* Document: openapi, info and paths are always written
EncodeDocument(d) ==
    JObj([key \in {"openapi", "info", "paths"}
                  \cup {x \in {"servers"} : ~IsEmpty(d.Servers)}
                  \cup {x \in {"components"} : ~IsNil(d.Components)}
                  \cup {x \in {"security"} : ~IsEmpty(d.Security)}
                  \cup {x \in {"tags"} : ~IsEmpty(d.Tags)}
                  \cup {x \in {"externalDocs"} : ~IsNil(d.ExternalDocs)} |->
        CASE key = "openapi" -> EncodeString(d.OpenAPI)
          [] key = "info" -> EncodeInfo(d.Info)
          [] key = "paths" -> IF IsNil(d.Paths) THEN JNull
                              ELSE EncodeMap(Val(d.Paths), EncodePathItem)
          [] key = "servers" -> EncodeSeq(Val(d.Servers), EncodeServer)
          [] key = "components" -> EncodeComponents(Val(d.Components))
          [] key = "security" -> EncodeSeq(Val(d.Security), EncodeSecurityRequirement)
          [] key = "tags" -> EncodeSeq(Val(d.Tags), EncodeTag)
          [] key = "externalDocs" -> EncodeExternalDocs(Val(d.ExternalDocs))])

\* Document.ToJSON: json.MarshalIndent(d, "", "  ")
ToJSON(d) == EncodeDocument(d)

----------------------------------------------------------------------------
(* json.Unmarshal(data, &unmarshaled) into the zero Document. A key that is   *)
(* absent, or null, leaves the field at its zero value; the values decoded    *)
(* here are outputs of ToJSON, so every key holds a value of its field's type. *)

\* the value under a key of an object, null when the key is absent
Field(j, key) == IF j.k = "object" /\ key \in DOMAIN j.o THEN j.o[key] ELSE JNull

DecodeString(j) == IF j.k = "string" THEN j.s ELSE ""

DecodeFlag(j) == IF j.k = "bool" THEN j.b ELSE FALSE

DecodeOpt(j, Dec(_)) == IF j.k = "null" THEN Nil ELSE Some(Dec(j))

DecodeMap(j, Dec(_)) ==
    IF j.k = "null" THEN Nil ELSE Some([key \in DOMAIN j.o |-> Dec(j.o[key])])

DecodeSeq(j, Dec(_)) ==
    IF j.k = "null" THEN Nil ELSE Some([i \in 1..Len(j.a) |-> Dec(j.a[i])])

\* a *Schema or a Schema inside a Document
DecodeSchemaValue(j) == DecodeSchema(j).val

DecodeExternalDocs(j) ==
    [URL |-> DecodeString(Field(j, "url")),
     Description |-> DecodeString(Field(j, "description"))]

DecodeMediaType(j) ==
    [Schema |-> DecodeOpt(Field(j, "schema"), DecodeSchemaValue),
     Examples |-> Nil, Encoding |-> Nil]

DecodeResponse(j) ==
    [Description |-> DecodeString(Field(j, "description")),
     Headers |-> Nil,
     Content |-> DecodeMap(Field(j, "content"), DecodeMediaType),
     Links |-> Nil]

DecodeParameter(j) ==
    [Name |-> DecodeString(Field(j, "name")),
     In |-> DecodeString(Field(j, "in")),
     Description |-> DecodeString(Field(j, "description")),
     Required |-> DecodeFlag(Field(j, "required")),
     Schema |-> DecodeOpt(Field(j, "schema"), DecodeSchemaValue),
     Examples |-> Nil, Content |-> Nil]

DecodeOperation(j) ==
    [Tags |-> DecodeSeq(Field(j, "tags"), DecodeString),
     Summary |-> DecodeString(Field(j, "summary")),
     Description |-> DecodeString(Field(j, "description")),
     OperationID |-> DecodeString(Field(j, "operationId")),
     Parameters |-> DecodeSeq(Field(j, "parameters"), DecodeParameter),
     Responses |-> DecodeMap(Field(j, "responses"), DecodeResponse)]

DecodePathItem(j) ==
    [s \in Slots |-> DecodeOpt(Field(j, SlotKey[s]), DecodeOperation)]

DecodeContact(j) ==
    [Name |-> DecodeString(Field(j, "name")),
     URL |-> DecodeString(Field(j, "url")),
     Email |-> DecodeString(Field(j, "email"))]

DecodeLicense(j) ==
    [Name |-> DecodeString(Field(j, "name")), URL |-> DecodeString(Field(j, "url"))]

DecodeInfo(j) ==
    [Title |-> DecodeString(Field(j, "title")),
     Version |-> DecodeString(Field(j, "version")),
     Description |-> DecodeString(Field(j, "description")),
     TermsOfService |-> DecodeString(Field(j, "termsOfService")),
     Contact |-> DecodeOpt(Field(j, "contact"), DecodeContact),
     License |-> DecodeOpt(Field(j, "license"), DecodeLicense)]

DecodeServer(j) ==
    [URL |-> DecodeString(Field(j, "url")),
     Description |-> DecodeString(Field(j, "description")),
     Variables |-> Nil]

DecodeTag(j) ==
    [Name |-> DecodeString(Field(j, "name")),
     Description |-> DecodeString(Field(j, "description")),
     ExternalDocs |-> DecodeOpt(Field(j, "externalDocs"), DecodeExternalDocs)]

DecodeSecurityScheme(j) ==
    [Type |-> DecodeString(Field(j, "type")),
     Scheme |-> DecodeString(Field(j, "scheme")),
     BearerFormat |-> DecodeString(Field(j, "bearerFormat"))]

DecodeScopes(j) == DecodeSeq(j, DecodeString)

DecodeSecurityRequirement(j) == [key \in DOMAIN j.o |-> DecodeScopes(j.o[key])]

DecodeComponents(j) ==
    [Schemas |-> DecodeMap(Field(j, "schemas"), DecodeSchemaValue),
     Responses |-> Nil, Parameters |-> Nil, Examples |-> Nil,
     RequestBodies |-> Nil, Headers |-> Nil,
     SecuritySchemes |-> DecodeMap(Field(j, "securitySchemes"), DecodeSecurityScheme),
     Links |-> Nil, Callbacks |-> Nil]

\* json.Unmarshal(data, &unmarshaled) with unmarshaled the zero Document
DecodeDocument(j) ==
    [OpenAPI |-> DecodeString(Field(j, "openapi")),
     Info |-> DecodeInfo(Field(j, "info")),
     Servers |-> DecodeSeq(Field(j, "servers"), DecodeServer),
     Paths |-> DecodeMap(Field(j, "paths"), DecodePathItem),
     Components |-> DecodeOpt(Field(j, "components"), DecodeComponents),
     Security |-> DecodeSeq(Field(j, "security"), DecodeSecurityRequirement),
     Tags |-> DecodeSeq(Field(j, "tags"), DecodeTag),
     ExternalDocs |-> DecodeOpt(Field(j, "externalDocs"), DecodeExternalDocs)]

----------------------------------------------------------------------------
(* The values the builders are called with *)

\* how many builder calls are made on a Document
MaxCalls == 2

PathNames == {"/x", "/y"}

\* the eight method names AddOperation knows and three it does not
KnownMethods == {"GET", "POST", "PUT", "DELETE", "PATCH", "HEAD", "OPTIONS", "TRACE"}

UnknownMethods == {"get", "CONNECT", ""}

\* the slot of a PathItem each known method names
SlotOf ==
    [GET |-> "Get", POST |-> "Post", PUT |-> "Put", DELETE |-> "Delete",
     PATCH |-> "Patch", HEAD |-> "Head", OPTIONS |-> "Options", TRACE |-> "Trace"]

\* NewStringSchema()
NewStringSchema == [ZeroSchema EXCEPT !.Type = "string"]

\* NewObjectSchema()
NewObjectSchema == [ZeroSchema EXCEPT !.Type = "object", !.Properties = Some(EmptyMap)]

\* Schema.WithMinLength, as the value it returns
WithMinLength(s, min) == [s EXCEPT !.MinLength = Some(min)]

\* Schema.WithMaxLength
WithMaxLength(s, max) == [s EXCEPT !.MaxLength = Some(max)]

\* Schema.WithMinimum (min is a float64; the values used are whole)
WithMinimum(s, min) == [s EXCEPT !.Minimum = Some(min)]

\* Schema.WithMaximum
WithMaximum(s, max) == [s EXCEPT !.Maximum = Some(max)]

\* Schema.WithMinItems
WithMinItems(s, min) == [s EXCEPT !.MinItems = Some(min)]

\* Schema.WithMaxItems
WithMaxItems(s, max) == [s EXCEPT !.MaxItems = Some(max)]

\* Schema.WithProperty, as the value it returns
WithProperty(s, name, schema) ==
    [s EXCEPT !.Properties = Some(MapPut(IF IsNil(@) THEN EmptyMap ELSE Val(@), name, schema))]

\* a mutant of WithRequiredProperty: the name is appended to Required and the
\* property is not stored
WithRequiredPropertyNameOnly(s, name, schema) ==
    [s EXCEPT !.Required = Append1(@, name)]

\* Schema.WithRequiredProperty, as the value it returns
WithRequiredProperty(s, name, schema) ==
    [WithProperty(s, name, schema) EXCEPT !.Required = Append1(@, name)]

\* operations built with NewOperation and the With builders
OpA ==
    WithResponse(NewOperation("getX", "Get X", ""), "404", "", NewResponse("Not found"))

OpB ==
    WithResponse(
        WithParameter(WithTag(NewOperation("putX", "", "Replace X"), "x"),
                      NewPathParameter("id", "", Some(NewStringSchema))),
        "200", "ok", NewJSONResponse("ok", Some(WithMinLength(NewStringSchema, 0))))

\* an Operation written as a composite literal that sets no Responses: the
\* fields it leaves out hold their zero value, a nil map or slice
OperationLiteral ==
    [Tags |-> Nil, Summary |-> "Get user by ID", Description |-> "",
     OperationID |-> "getUser", Parameters |-> Nil, Responses |-> Nil]

Operations == {OpA, OpB}

\* the PathItems SetPath is called with
PathItems ==
    {EmptyPathItem,
     [EmptyPathItem EXCEPT !.Get = Some(OpB)],
     [EmptyPathItem EXCEPT !.Post = Some(OperationLiteral)]}

\* schemas built with the schema constructors and the With builders
BuiltSchemas ==
    {NewObjectSchema,
     WithMinLength(NewStringSchema, 0),
     WithRequiredProperty(NewObjectSchema, "id", NewStringSchema)}

BearerScheme == [Type |-> "http", Scheme |-> "bearer", BearerFormat |-> "JWT"]

BearerRequirement == [key \in {"bearerAuth"} |-> Some(<<>>)]

NoCall == [op |-> "none", args |-> <<>>, pre |-> NewDocument("", "")]

NoRoundTrip == [stage |-> "none"]

NoValue == [type |-> "none"]

NoWith == [op |-> "none", pre |-> NoValue]

\* no chain of With calls is being made
ValueIdle ==
    /\ val = NoValue
    /\ kept = NoValue
    /\ vlast = NoWith
    /\ panicked = FALSE
    /\ steps = 0
    /\ sdoc = NewDocument("", "")
    /\ snap = <<>>

\* no ToJSON output yet
NoOutput == [at |-> -1]

\* no Document of a second caller is in play
TwoIdle ==
    /\ mem = <<>>
    /\ dptr = <<>>
    /\ hist = <<>>
    /\ out = <<>>
    /\ turn = [last |-> 0, switches |-> 0]

\* no goroutines are calling AddOperation on a shared Document
RaceIdle ==
    /\ rdoc = NewDocument("", "")
    /\ req = <<>>
    /\ pc = <<>>
    /\ held = <<>>
    /\ log = <<>>

NoPointer == [of |-> "none"]

\* the caller holds no *PathItem
PathIdle == pptr = NoPointer

NilSlice == [arr |-> 0, len |-> 0, cap |-> 0]

\* no Tags slice has been made
SliceIdle ==
    /\ heap = <<>>
    /\ base = NilSlice
    /\ derived = <<>>

\* no call is made on an AdditionalProperties receiver
APIdle ==
    /\ ap = ZeroAP
    /\ data = JNull
    /\ err = NoError
    /\ apLast = [op |-> "none", pre |-> ZeroAP, src |-> ZeroAP]

\* no call is made on the caller's own Document
DocIdle ==
    /\ doc = NewDocument("", "")
    /\ created = [title |-> "", version |-> ""]
    /\ calls = 0
    /\ ret = Self
    /\ last = NoCall
    /\ rt = NoRoundTrip

----------------------------------------------------------------------------
(* The values the AdditionalProperties receiver and its inputs are drawn from *)

\* how deep schemas nest through additionalProperties
MaxDepth == 1

StringProperty == [ZeroSchema EXCEPT !.Type = "string"]

\* schemas without additionalProperties: &Schema{}, NewStringSchema(),
\* WithMinLength(0), NewObjectSchema() (an empty, non-nil Properties map)
LeafSchemas ==
    [Type : {"", "string"}, Maximum : {Nil}, Minimum : {Nil}, MaxLength : {Nil},
     MinLength : {Nil, Some(0)}, MaxItems : {Nil}, MinItems : {Nil}, Required : {Nil},
     Properties : {Nil, Some(EmptyMap)}, AdditionalProperties : {Nil}]
    \cup {[ZeroSchema EXCEPT !.Type = "object",
                             !.Properties = Some([id |-> StringProperty]),
                             !.Required = Some(<<"id">>)]}

\* an AdditionalProperties with exactly one alternative populated
OneOf(schemas) ==
    {[Bool |-> Some(b), Schema |-> Nil] : b \in BOOLEAN}
    \cup {[Bool |-> Nil, Schema |-> Some(s)] : s \in schemas}

RECURSIVE SchemaSet(_)

SchemaSet(d) ==
    IF d = 0 THEN LeafSchemas
    ELSE {[s EXCEPT !.AdditionalProperties = a] :
            s \in LeafSchemas,
            a \in {Nil} \cup {Some(x) : x \in OneOf(SchemaSet(d - 1))}}

\* every state of the two fields of a receiver: none, one or both populated
Receivers ==
    [Bool : {Nil, Some(TRUE), Some(FALSE)},
     Schema : {Nil} \cup {Some(s) : s \in SchemaSet(MaxDepth)}]

\* the JSON values handed to UnmarshalJSON: every kind of JSON value, objects
\* that decode as a Schema and objects with a wrongly typed field
JSONInputs ==
    {JNull, JBool(TRUE), JBool(FALSE), JStr("x"), JNum(1), JArr(<<>>),
     JObj(EmptyMap),
     JObj([type |-> JStr("string")]),
     JObj([type |-> JNum(1)]),
     JObj([minLength |-> JNum(0)]),
     JObj([minLength |-> JStr("x")]),
     JObj([unknown |-> JNum(1)]),
     JObj([required |-> JArr(<<JStr("id")>>),
           properties |-> JObj([id |-> JObj([type |-> JStr("string")])])]),
     JObj([properties |-> JArr(<<>>)]),
     JObj([additionalProperties |-> JBool(TRUE)]),
     JObj([additionalProperties |-> JNull]),
     JObj([additionalProperties |-> JStr("x")]),
     JObj([additionalProperties |-> JObj([type |-> JStr("string")])])}

BothPopulated == [Bool |-> Some(TRUE), Schema |-> Some(StringProperty)]

----------------------------------------------------------------------------
(* The calls on an AdditionalProperties receiver *)

InitAP ==
    /\ ap \in Receivers
    /\ data = JNull
    /\ err = NoError
    /\ apLast = [op |-> "none", pre |-> ap, src |-> ap]
    /\ doc = NewDocument("", "")
    /\ created = [title |-> "", version |-> ""]
    /\ calls = 0
    /\ ret = Self
    /\ last = NoCall
    /\ rt = NoRoundTrip
    /\ ValueIdle
    /\ TwoIdle
    /\ RaceIdle
    /\ PathIdle
    /\ SliceIdle

\* data, err := ap.MarshalJSON()
Marshal ==
    /\ data' = MarshalJSON(ap)
    /\ err' = NoError
    /\ apLast' = [op |-> "MarshalJSON", pre |-> ap, src |-> ap]
    /\ UNCHANGED ap
    /\ UNCHANGED <<docVars, valVars, twoVars, raceVars, pathVars, sliceVars>>

\* err := ap.UnmarshalJSON(j)
Unmarshal(j) ==
    /\ ap' = UnmarshalJSON(ap, j).ap
    /\ err' = UnmarshalJSON(ap, j).err
    /\ data' = j
    /\ apLast' = [op |-> "UnmarshalJSON", pre |-> ap, src |-> ap]
    /\ UNCHANGED <<docVars, valVars, twoVars, raceVars, pathVars, sliceVars>>

\* err := r.UnmarshalJSON(data), with data the output of the MarshalJSON call
\* just made and r a receiver of its own: the zero value, the value that was
\* encoded, or a value with both fields populated
RoundTrip(r) ==
    /\ apLast.op = "MarshalJSON"
    /\ ap' = UnmarshalJSON(r, data).ap
    /\ err' = UnmarshalJSON(r, data).err
    /\ apLast' = [op |-> "RoundTrip", pre |-> r, src |-> apLast.pre]
    /\ UNCHANGED data
    /\ UNCHANGED <<docVars, valVars, twoVars, raceVars, pathVars, sliceVars>>

NextAP ==
    \/ Marshal
    \/ \E j \in JSONInputs : Unmarshal(j)
    \/ \E r \in {ZeroAP, ap, BothPopulated} : RoundTrip(r)

SpecAP == InitAP /\ [][NextAP]_vars

----------------------------------------------------------------------------
(* The calls on a Document: NewDocument, then root builder calls, and at any  *)
(* point ToJSON followed by json.Unmarshal of its output into a new Document  *)

Init ==
    /\ created \in {[title |-> "Test API", version |-> "1.0.0"],
                    [title |-> "", version |-> "2.1"]}
    /\ doc = NewDocument(created.title, created.version)
    /\ calls = 0
    /\ ret = Self
    /\ last = [op |-> "NewDocument", args |-> <<created.title, created.version>>,
               pre |-> doc]
    /\ rt = NoRoundTrip
    /\ ValueIdle
    /\ TwoIdle
    /\ RaceIdle
    /\ PathIdle
    /\ SliceIdle
    /\ ap = ZeroAP
    /\ data = JNull
    /\ err = NoError
    /\ apLast = [op |-> "none", pre |-> ZeroAP, src |-> ZeroAP]

\* a builder call: the Document after it, the pointer it returns, and a record
\* of the call with the Document as it was before
Call(op, args, after, returned) ==
    /\ calls < MaxCalls
    /\ calls' = calls + 1
    /\ doc' = after
    /\ ret' = returned
    /\ last' = [op |-> op, args |-> args, pre |-> doc]
    /\ rt' = NoRoundTrip
    /\ UNCHANGED created
    /\ UNCHANGED <<apVars, valVars, twoVars, raceVars, pathVars, sliceVars>>

PathItemPointer(item) == [ptr |-> "PathItem", item |-> item]

CallWithInfo(description) ==
    Call("WithInfo", <<description, "https://tos">>,
         WithInfo(doc, description, "https://tos"), Self)

CallWithContact ==
    Call("WithContact", <<"Ann", "", "ann@example.com">>,
         WithContact(doc, "Ann", "", "ann@example.com"), Self)

CallWithLicense ==
    Call("WithLicense", <<"MIT", "">>, WithLicense(doc, "MIT", ""), Self)

CallAddServer ==
    Call("AddServer", <<"https://api", "">>, AddServer(doc, "https://api", ""), Self)

CallAddTag == Call("AddTag", <<"x", "">>, AddTag(doc, "x", ""), Self)

CallAddTagWithDocs ==
    Call("AddTagWithDocs", <<"y", "Y things", "https://docs", "">>,
         AddTagWithDocs(doc, "y", "Y things", "https://docs", ""), Self)

CallSetExternalDocs ==
    Call("SetExternalDocs", <<"https://docs", "Docs">>,
         SetExternalDocs(doc, "https://docs", "Docs"), Self)

CallAddPath(path) ==
    Call("AddPath", <<path>>, AddPath(doc, path).doc,
         PathItemPointer(AddPath(doc, path).item))

CallGetPath(path) ==
    Call("GetPath", <<path>>, GetPath(doc, path).doc,
         PathItemPointer(GetPath(doc, path).item))

CallSetPath(path, pathItem) ==
    Call("SetPath", <<path, pathItem>>, SetPath(doc, path, pathItem), Self)

CallAddOperation(path, method, operation) ==
    Call("AddOperation", <<path, method, operation>>,
         AddOperation(doc, path, method, operation), Self)

CallAddComponents ==
    Call("AddComponents", <<>>, AddComponents(doc), [ptr |-> "Components"])

CallAddSchema(schema) ==
    Call("AddSchema", <<"Pet", schema>>, AddSchema(doc, "Pet", schema), Self)

CallAddSecurityScheme ==
    Call("AddSecurityScheme", <<"bearerAuth", BearerScheme>>,
         AddSecurityScheme(doc, "bearerAuth", BearerScheme), Self)

CallAddSecurityRequirement ==
    Call("AddSecurityRequirement", <<BearerRequirement>>,
         AddSecurityRequirement(doc, BearerRequirement), Self)

\* data, err := doc.ToJSON()
CallToJSON ==
    /\ rt.stage = "none"
    /\ rt' = [stage |-> "encoded", json |-> ToJSON(doc)]
    /\ UNCHANGED <<doc, created, calls, ret, last>>
    /\ UNCHANGED <<apVars, valVars, twoVars, raceVars, pathVars, sliceVars>>

\* var unmarshaled Document; err = json.Unmarshal(data, &unmarshaled)
CallUnmarshal ==
    /\ rt.stage = "encoded"
    /\ rt' = [stage |-> "decoded", json |-> rt.json, doc |-> DecodeDocument(rt.json)]
    /\ UNCHANGED <<doc, created, calls, ret, last>>
    /\ UNCHANGED <<apVars, valVars, twoVars, raceVars, pathVars, sliceVars>>

Next ==
    \/ \E description \in {"", "An API"} : CallWithInfo(description)
    \/ CallWithContact
    \/ CallWithLicense
    \/ CallAddServer
    \/ CallAddTag
    \/ CallAddTagWithDocs
    \/ CallSetExternalDocs
    \/ \E path \in PathNames : CallAddPath(path)
    \/ \E path \in PathNames : CallGetPath(path)
    \/ \E path \in PathNames, pathItem \in PathItems : CallSetPath(path, pathItem)
    \/ \E path \in PathNames, method \in KnownMethods \cup UnknownMethods,
          operation \in Operations : CallAddOperation(path, method, operation)
    \/ CallAddComponents
    \/ \E schema \in BuiltSchemas : CallAddSchema(schema)
    \/ CallAddSecurityScheme
    \/ CallAddSecurityRequirement
    \/ CallToJSON
    \/ CallUnmarshal

Spec == Init /\ [][Next]_vars

----------------------------------------------------------------------------
(* Constructors and With builders of the nested types. A With builder of a    *)
(* value type is given here as the value it returns; what its receiver holds  *)
(* afterwards is KeptAfter.                                                   *)

\* if m == nil { m = make(map...) }; m[key] = v
LazyPut(m, key, v) == Some(MapPut(IF IsNil(m) THEN EmptyMap ELSE Val(m), key, v))

\* Response.WithHeader
WithHeader(r, name, header) == [r EXCEPT !.Headers = LazyPut(@, name, header)]

\* Response.WithContent
WithContent(r, mediaType, content) ==
    [r EXCEPT !.Content = LazyPut(@, mediaType, content)]

\* Response.WithLink
WithLink(r, name, link) == [r EXCEPT !.Links = LazyPut(@, name, link)]

\* NewRequestBody
NewRequestBody(description, required) ==
    [Description |-> description, Required |-> required, Content |-> Some(EmptyMap)]

\* NewJSONRequestBody: schema is a *Schema
NewJSONRequestBody(description, required, schema) ==
    [Description |-> description, Required |-> required,
     Content |-> Some([k \in {"application/json"} |->
                        [Schema |-> schema, Examples |-> Nil, Encoding |-> Nil]])]

\* RequestBody.WithContent
RequestBodyWithContent(r, mediaType, content) ==
    [r EXCEPT !.Content = LazyPut(@, mediaType, content)]

\* NewMediaType
NewMediaType ==
    [Schema |-> Nil, Examples |-> Some(EmptyMap), Encoding |-> Some(EmptyMap)]

\* NewJSONMediaType: schema is a *Schema
NewJSONMediaType(schema) == [Schema |-> schema, Examples |-> Nil, Encoding |-> Nil]

\* MediaType.WithSchema
WithSchema(m, schema) == [m EXCEPT !.Schema = schema]

\* MediaType.WithExamples
WithExamples(m, name, example) == [m EXCEPT !.Examples = LazyPut(@, name, example)]

\* MediaType.WithEncoding
WithEncoding(m, property, encoding) ==
    [m EXCEPT !.Encoding = LazyPut(@, property, encoding)]

\* NewExample
NewExample ==
    [Summary |-> "", Description |-> "", ExternalValue |-> "", Extensions |-> Nil]

\* NewHeader
NewHeader ==
    [Description |-> "", Required |-> FALSE, Schema |-> Nil,
     Examples |-> Some(EmptyMap), Content |-> Some(EmptyMap)]

\* Header.WithExamples
HeaderWithExamples(h, name, example) ==
    [h EXCEPT !.Examples = LazyPut(@, name, example)]

\* NewLink
NewLink ==
    [OperationRef |-> "", OperationId |-> "", Parameters |-> Some(EmptyMap),
     Description |-> ""]

\* Link.WithParameter
LinkWithParameter(l, name, value) == [l EXCEPT !.Parameters = LazyPut(@, name, value)]

\* NewParameter
NewParameter(name, in, description) ==
    [Name |-> name, In |-> in, Description |-> description, Required |-> FALSE,
     Schema |-> Nil, Examples |-> Nil, Content |-> Nil]

\* Parameter.WithRequired
WithRequired(q, required) == [q EXCEPT !.Required = required]

\* NewCallback: a Callback is a map[string]PathItem
NewCallback == Some(EmptyMap)

\* Callback.WithPath (c is non-nil)
WithPath(c, expression, pathItem) == Some(MapPut(Val(c), expression, pathItem))

\* a mutant of NewOAuthFlow: Scopes is left nil
NewOAuthFlowNilScopes ==
    [AuthorizationUrl |-> "", TokenUrl |-> "", RefreshUrl |-> "", Scopes |-> Nil]

\* NewOAuthFlow
NewOAuthFlow ==
    [AuthorizationUrl |-> "", TokenUrl |-> "", RefreshUrl |-> "",
     Scopes |-> Some(EmptyMap)]

\* OAuthFlow.WithScope (f.Scopes is non-nil)
WithScope(f, scope, description) ==
    [f EXCEPT !.Scopes = Some(MapPut(Val(@), scope, description))]

\* the map-typed fields of each value type
MapFields ==
    [Operation |-> {"Responses"},
     Response |-> {"Headers", "Content", "Links"},
     RequestBody |-> {"Content"},
     MediaType |-> {"Examples", "Encoding"},
     Schema |-> {"Properties"},
     Header |-> {"Examples", "Content"},
     Link |-> {"Parameters"},
     Parameter |-> {"Examples", "Content"}]

\* the map- and slice-typed fields of each struct type
CollectionFields ==
    [Document |-> {"Servers", "Paths", "Security", "Tags"},
     Components |-> {"Schemas", "Responses", "Parameters", "Examples",
                     "RequestBodies", "Headers", "SecuritySchemes", "Links",
                     "Callbacks"},
     Operation |-> {"Tags", "Parameters", "Responses"},
     Response |-> {"Headers", "Content", "Links"},
     RequestBody |-> {"Content"},
     MediaType |-> {"Examples", "Encoding"},
     Schema |-> {"Required", "Properties"},
     Header |-> {"Examples", "Content"},
     Link |-> {"Parameters"},
     Parameter |-> {"Examples", "Content"},
     OAuthFlow |-> {"Scopes"}]

\* what the caller's struct holds after a call of a method with a value
\* receiver that returned result: the method worked on a copy, so a field it
\* assigned is as before, and a map that was non-nil is the one map both the
\* caller's struct and the copy refer to, so an insert into it shows in both
KeptAfter(recv, result, maps) ==
    [f \in DOMAIN recv |->
        IF f \in maps /\ ~IsNil(recv[f]) THEN result[f] ELSE recv[f]]

\* the Document d after a With builder with a value receiver returned result
\* for the Operation that was added to d: AddOperation stored a copy of the
\* struct (&operation, the parameter), and a map the copy refers to is the
\* map the caller's value refers to
Aliased(d, result) ==
    [d EXCEPT !.Paths =
        Some([p \in DOMAIN Val(@) |->
            [slot \in DOMAIN Val(@)[p] |->
                IF IsNil(Val(@)[p][slot]) THEN Nil
                ELSE Some(KeptAfter(Val(Val(@)[p][slot]), result,
                                    MapFields["Operation"]))]])]

\* how many With calls are chained
MaxSteps == 2

Typed(type, v) == [type |-> type, v |-> v]

\* what the constructors return
Constructed ==
    {Typed("Document", NewDocument("Test API", "1.0.0")),
     Typed("Components", NewComponents),
     Typed("Operation", NewOperation("getX", "Get X", "")),
     Typed("Response", NewResponse("ok")),
     Typed("Response", NewJSONResponse("ok", Some(NewStringSchema))),
     Typed("RequestBody", NewRequestBody("body", TRUE)),
     Typed("RequestBody", NewJSONRequestBody("body", TRUE, Some(NewStringSchema))),
     Typed("MediaType", NewMediaType),
     Typed("MediaType", NewJSONMediaType(Some(NewStringSchema))),
     Typed("Schema", NewStringSchema),
     Typed("Schema", NewObjectSchema),
     Typed("Header", NewHeader),
     Typed("Link", NewLink),
     Typed("Parameter", NewParameter("id", "query", "")),
     Typed("Parameter", NewPathParameter("id", "", Some(NewStringSchema))),
     Typed("OAuthFlow", NewOAuthFlow),
     Typed("Callback", NewCallback)}

\* values composed as literals: a Response that sets only its description, as
\* WithNoContentResponse writes it
Literals ==
    {Typed("Response",
           [Description |-> "No Content", Headers |-> Nil, Content |-> Nil,
            Links |-> Nil])}

Names == {"a", "b"}

\* the values the constraint builders are called with
Limits == {0, 3}

InitValue ==
    /\ \/ val \in Constructed
       \/ val \in Literals
    /\ kept = val
    /\ vlast = NoWith
    /\ panicked = FALSE
    /\ steps = 0
    /\ sdoc = NewDocument("Test API", "1.0.0")
    /\ snap = [method \in {} |-> NoValue]
    /\ ap = ZeroAP
    /\ data = JNull
    /\ err = NoError
    /\ apLast = [op |-> "none", pre |-> ZeroAP, src |-> ZeroAP]
    /\ doc = NewDocument("", "")
    /\ created = [title |-> "", version |-> ""]
    /\ calls = 0
    /\ ret = Self
    /\ last = NoCall
    /\ rt = NoRoundTrip
    /\ TwoIdle
    /\ RaceIdle
    /\ PathIdle
    /\ SliceIdle

\* a call of a With builder with a value receiver, on the value built so far
With(op, result) ==
    /\ steps < MaxSteps
    /\ ~panicked
    /\ rt = NoRoundTrip
    /\ steps' = steps + 1
    /\ val' = Typed(val.type, result)
    /\ kept' = Typed(val.type, KeptAfter(val.v, result, MapFields[val.type]))
    /\ vlast' = [op |-> op, pre |-> val]
    /\ sdoc' = IF val.type = "Operation" THEN Aliased(sdoc, result) ELSE sdoc
    /\ UNCHANGED <<panicked, snap>>
    /\ UNCHANGED <<apVars, docVars, twoVars, raceVars, pathVars, sliceVars>>

\* a call of a With builder whose receiver is a pointer or a map: what the
\* caller holds is what the builder wrote to
WithInPlace(op, result) ==
    /\ steps < MaxSteps
    /\ ~panicked
    /\ rt = NoRoundTrip
    /\ steps' = steps + 1
    /\ val' = Typed(val.type, result)
    /\ kept' = Typed(val.type, result)
    /\ vlast' = [op |-> op, pre |-> val]
    /\ UNCHANGED <<panicked, sdoc, snap>>
    /\ UNCHANGED <<apVars, docVars, twoVars, raceVars, pathVars, sliceVars>>

\* panic: assignment to entry in nil map
Panic(op) ==
    /\ steps < MaxSteps
    /\ ~panicked
    /\ rt = NoRoundTrip
    /\ steps' = steps + 1
    /\ panicked' = TRUE
    /\ vlast' = [op |-> op, pre |-> val]
    /\ UNCHANGED <<val, kept, sdoc, snap>>
    /\ UNCHANGED <<apVars, docVars, twoVars, raceVars, pathVars, sliceVars>>

ChainWithTag(tag) == val.type = "Operation" /\ With("WithTag", WithTag(val.v, tag))

ChainWithParameter ==
    /\ val.type = "Operation"
    /\ With("WithParameter", WithParameter(val.v, NewParameter("id", "query", "")))

ChainWithResponse(code) ==
    /\ val.type = "Operation"
    /\ IF IsNil(val.v.Responses) THEN Panic("WithResponse")
       ELSE With("WithResponse", WithResponse(val.v, code, "", NewResponse("ok")))

ChainWithHeader(name) ==
    val.type = "Response" /\ With("WithHeader", WithHeader(val.v, name, NewHeader))

ChainWithContent(name) ==
    /\ val.type = "Response"
    /\ With("WithContent", WithContent(val.v, name, NewMediaType))

ChainWithLink(name) ==
    val.type = "Response" /\ With("WithLink", WithLink(val.v, name, NewLink))

ChainRequestBodyWithContent(name) ==
    /\ val.type = "RequestBody"
    /\ With("WithContent", RequestBodyWithContent(val.v, name, NewMediaType))

ChainWithSchema ==
    /\ val.type = "MediaType"
    /\ With("WithSchema", WithSchema(val.v, Some(NewObjectSchema)))

ChainWithExamples(name) ==
    /\ val.type = "MediaType"
    /\ With("WithExamples", WithExamples(val.v, name, NewExample))

ChainWithEncoding(name) ==
    /\ val.type = "MediaType"
    /\ With("WithEncoding", WithEncoding(val.v, name, [ContentType |-> "text/plain"]))

ChainWithMinLength(min) ==
    val.type = "Schema" /\ With("WithMinLength", WithMinLength(val.v, min))

ChainWithMaxLength(max) ==
    val.type = "Schema" /\ With("WithMaxLength", WithMaxLength(val.v, max))

ChainWithMinimum(min) ==
    val.type = "Schema" /\ With("WithMinimum", WithMinimum(val.v, min))

ChainWithMaximum(max) ==
    val.type = "Schema" /\ With("WithMaximum", WithMaximum(val.v, max))

ChainWithMinItems(min) ==
    val.type = "Schema" /\ With("WithMinItems", WithMinItems(val.v, min))

ChainWithMaxItems(max) ==
    val.type = "Schema" /\ With("WithMaxItems", WithMaxItems(val.v, max))

ChainWithProperty(name) ==
    /\ val.type = "Schema"
    /\ With("WithProperty", WithProperty(val.v, name, NewStringSchema))

ChainWithRequiredProperty(name) ==
    /\ val.type = "Schema"
    /\ With("WithRequiredProperty", WithRequiredProperty(val.v, name, NewStringSchema))

ChainHeaderWithExamples(name) ==
    /\ val.type = "Header"
    /\ With("WithExamples", HeaderWithExamples(val.v, name, NewExample))

ChainLinkWithParameter(name) ==
    /\ val.type = "Link"
    /\ With("WithParameter", LinkWithParameter(val.v, name, "$response.body#/id"))

ChainWithRequired(required) ==
    val.type = "Parameter" /\ With("WithRequired", WithRequired(val.v, required))

ChainWithScope(scope) ==
    /\ val.type = "OAuthFlow"
    /\ IF IsNil(val.v.Scopes) THEN Panic("WithScope")
       ELSE WithInPlace("WithScope", WithScope(val.v, scope, "scope"))

ChainWithPath(expression) ==
    /\ val.type = "Callback"
    /\ IF IsNil(val.v) THEN Panic("WithPath")
       ELSE WithInPlace("WithPath", WithPath(val.v, expression, EmptyPathItem))

\* doc.AddOperation("/x", method, op) with op the Operation the chain built
ValueAddOperation(method) ==
    /\ val.type = "Operation"
    /\ ~panicked
    /\ rt = NoRoundTrip
    /\ method \notin DOMAIN snap
    /\ sdoc' = AddOperation(sdoc, "/x", method, val.v)
    /\ snap' = [m \in DOMAIN snap \cup {method} |-> IF m = method THEN val.v ELSE snap[m]]
    /\ UNCHANGED <<val, kept, vlast, panicked, steps>>
    /\ UNCHANGED <<apVars, docVars, twoVars, raceVars, pathVars, sliceVars>>

\* json.Marshal of the Response or the Schema the chain built
EncodeValue ==
    /\ val.type \in {"Response", "Schema"}
    /\ ~panicked
    /\ rt = NoRoundTrip
    /\ rt' = [stage |-> "encoded",
              json |-> IF val.type = "Response" THEN EncodeResponse(val.v)
                       ELSE EncodeSchema(val.v)]
    /\ UNCHANGED <<doc, created, calls, ret, last>>
    /\ UNCHANGED <<apVars, valVars, twoVars, raceVars, pathVars, sliceVars>>

\* json.Unmarshal of the encoded Schema into a new Schema
DecodeValue ==
    /\ val.type = "Schema"
    /\ rt.stage = "encoded"
    /\ rt' = [stage |-> "decoded", json |-> rt.json, schema |-> DecodeSchema(rt.json)]
    /\ UNCHANGED <<doc, created, calls, ret, last>>
    /\ UNCHANGED <<apVars, valVars, twoVars, raceVars, pathVars, sliceVars>>

NextValue ==
    \/ \E tag \in Names : ChainWithTag(tag)
    \/ ChainWithParameter
    \/ \E code \in {"200", "404"} : ChainWithResponse(code)
    \/ \E name \in Names : ChainWithHeader(name)
    \/ \E name \in Names : ChainWithContent(name)
    \/ \E name \in Names : ChainWithLink(name)
    \/ \E name \in Names : ChainRequestBodyWithContent(name)
    \/ ChainWithSchema
    \/ \E name \in Names : ChainWithExamples(name)
    \/ \E name \in Names : ChainWithEncoding(name)
    \/ \E min \in Limits : ChainWithMinLength(min)
    \/ \E max \in Limits : ChainWithMaxLength(max)
    \/ \E min \in Limits : ChainWithMinimum(min)
    \/ \E max \in Limits : ChainWithMaximum(max)
    \/ \E min \in Limits : ChainWithMinItems(min)
    \/ \E max \in Limits : ChainWithMaxItems(max)
    \/ \E name \in Names : ChainWithProperty(name)
    \/ \E name \in Names : ChainWithRequiredProperty(name)
    \/ \E name \in Names : ChainHeaderWithExamples(name)
    \/ \E name \in Names : ChainLinkWithParameter(name)
    \/ \E required \in BOOLEAN : ChainWithRequired(required)
    \/ \E scope \in Names : ChainWithScope(scope)
    \/ \E expression \in Names : ChainWithPath(expression)
    \/ \E method \in {"GET", "POST"} : ValueAddOperation(method)
    \/ EncodeValue
    \/ DecodeValue

SpecValue == InitValue /\ [][NextValue]_vars

----------------------------------------------------------------------------
(* Two callers, each with a Document of its own from NewDocument, calling    *)
(* root builders and ToJSON in any interleaving. The Documents live in a     *)
(* heap: a *Document points to the struct, and the struct refers to its      *)
(* Paths map (with the PathItems the builders allocate for it) and to its    *)
(* Components; a builder writes through these references. The slices are     *)
(* held in the struct: append stores the new slice header there.             *)

Callers == {1, 2}

\* how many builder calls each caller makes
MaxCallsEach == 2

\* store v at address a, the next free address included
Put(m, a, v) == IF a = Len(m) + 1 THEN Append(m, v) ELSE [m EXCEPT ![a] = v]

\* a mutant of NewDocumentIn: Paths is one package-level map, at address 1
NewDocumentInShared(m, title, version) ==
    LET d == NewDocument(title, version)
        m1 == IF m = <<>> THEN <<Val(d.Paths)>> ELSE m
    IN [mem |-> Append(m1, [d EXCEPT !.Paths = Some(1)]), ptr |-> Len(m1) + 1]

\* NewDocument in the heap m: make(map[string]*PathItem) and &Document{...}
\* are new objects; the pointer to the struct is returned
NewDocumentIn(m, title, version) ==
    LET d == NewDocument(title, version)
    IN [mem |-> m \o <<Val(d.Paths), [d EXCEPT !.Paths = Some(Len(m) + 1)]>>,
        ptr |-> Len(m) + 2]

\* the Document a pointer leads to, its references followed
Load(m, ptr) ==
    [m[ptr] EXCEPT !.Paths = IF IsNil(@) THEN Nil ELSE Some(m[Val(@)]),
                   !.Components = IF IsNil(@) THEN Nil ELSE Some(m[Val(@)])]

\* the heap after a builder made the Document behind ptr into after: the
\* fields are assigned in the struct, the maps are written where they are,
\* and a container that was nil is a new object
Store(m, ptr, after) ==
    LET struct == m[ptr]
        paths == IF IsNil(after.Paths) THEN Nil
                 ELSE IF IsNil(struct.Paths) THEN Some(Len(m) + 1)
                 ELSE struct.Paths
        m1 == IF IsNil(paths) THEN m ELSE Put(m, Val(paths), Val(after.Paths))
        components == IF IsNil(after.Components) THEN Nil
                      ELSE IF IsNil(struct.Components) THEN Some(Len(m1) + 1)
                      ELSE struct.Components
        m2 == IF IsNil(components) THEN m1
              ELSE Put(m1, Val(components), Val(after.Components))
    IN Put(m2, ptr, [after EXCEPT !.Paths = paths, !.Components = components])

\* the builder call c on the Document d
Apply(d, c) ==
    CASE c.op = "AddOperation" -> AddOperation(d, c.args[1], c.args[2], c.args[3])
      [] c.op = "AddSchema" -> AddSchema(d, c.args[1], c.args[2])

\* the order of the map keys in bytes, as encoding/json compares them
KeyRank == [k \in PathNames |-> IF k = "/x" THEN 1 ELSE 2]

\* the orders in which ranging over a map can visit its keys
Visits(keys) ==
    {v \in [1..Cardinality(keys) -> keys] :
        \A a, b \in 1..Cardinality(keys) : a # b => v[a] # v[b]}

\* a mutant of SortKeys: the keys are written as the map was ranged over
KeysAsVisited(visit) == visit

RECURSIVE SortKeys(_)
\* encoding/json on a map: the keys, as visited, are sorted before they are
\* written
SortKeys(visit) ==
    IF visit = <<>> THEN <<>>
    ELSE LET k == Head(visit)
             rest == SortKeys(Tail(visit))
         IN SelectSeq(rest, LAMBDA x : KeyRank[x] < KeyRank[k]) \o <<k>>
            \o SelectSeq(rest, LAMBDA x : KeyRank[x] >= KeyRank[k])

\* who called last and how often the callers have taken turns
Turn(i) ==
    [last |-> i,
     switches |-> IF turn.last \notin {0, i} /\ turn.switches < 2
                  THEN turn.switches + 1 ELSE turn.switches]

InitTwo ==
    /\ LET first == NewDocumentIn(<<>>, "Test API", "1.0.0")
           second == NewDocumentIn(first.mem, "Test API", "1.0.0")
       IN /\ mem = second.mem
          /\ dptr = <<first.ptr, second.ptr>>
    /\ hist = <<(<<>>), (<<>>)>>
    /\ out = <<NoOutput, NoOutput>>
    /\ turn = [last |-> 0, switches |-> 0]
    /\ RaceIdle
    /\ PathIdle
    /\ SliceIdle
    /\ ValueIdle
    /\ ap = ZeroAP
    /\ data = JNull
    /\ err = NoError
    /\ apLast = [op |-> "none", pre |-> ZeroAP, src |-> ZeroAP]
    /\ doc = NewDocument("", "")
    /\ created = [title |-> "", version |-> ""]
    /\ calls = 0
    /\ ret = Self
    /\ last = NoCall
    /\ rt = NoRoundTrip

\* caller i calls a root builder on its Document
CallBy(i, c) ==
    /\ Len(hist[i]) < MaxCallsEach
    /\ mem' = Store(mem, dptr[i], Apply(Load(mem, dptr[i]), c))
    /\ hist' = [hist EXCEPT ![i] = Append(@, c)]
    /\ turn' = Turn(i)
    /\ UNCHANGED <<dptr, out>>
    /\ UNCHANGED <<apVars, docVars, valVars, raceVars, pathVars, sliceVars>>

AddOperationBy(i, path) ==
    CallBy(i, [op |-> "AddOperation", args |-> <<path, "GET", OpA>>])

AddSchemaBy(i) ==
    CallBy(i, [op |-> "AddSchema", args |-> <<"Pet", NewObjectSchema>>])

\* caller i calls ToJSON on its Document
ToJSONBy(i) ==
    LET d == Load(mem, dptr[i]) IN
    \E visit \in Visits(DOMAIN Val(d.Paths)) :
        /\ out' = [out EXCEPT ![i] = [at |-> Len(hist[i]), json |-> ToJSON(d),
                                      paths |-> SortKeys(visit)]]
        /\ turn' = Turn(i)
        /\ UNCHANGED <<mem, dptr, hist>>
        /\ UNCHANGED <<apVars, docVars, valVars, raceVars, pathVars, sliceVars>>

NextTwo ==
    \/ \E i \in Callers, path \in PathNames : AddOperationBy(i, path)
    \/ \E i \in Callers : AddSchemaBy(i)
    \/ \E i \in Callers : ToJSONBy(i)

SpecTwo == InitTwo /\ [][NextTwo]_vars

----------------------------------------------------------------------------
(* Two goroutines, each calling AddOperation once on the same Document with   *)
(* no lock: a call reads the PathItem through GetPath, sets one slot in its   *)
(* copy and writes the copy back, and the other goroutine can run in between. *)

Goroutines == {1, 2}

\* a mutant of StoreBack: the slot is set in the map entry as it is at the
\* time of the write, not in the copy read earlier
StoreBackMerged(d, path, pathItem, method, operation) ==
    [d EXCEPT !.Paths =
        Some(MapPut(Val(@), path, Dispatch(Val(@)[path], method, operation)))]

\* AddOperation from its switch on: the slot the method names is set in the
\* PathItem behind pathItem, and d.Paths[path] = *pathItem
StoreBack(d, path, pathItem, method, operation) ==
    [d EXCEPT !.Paths = Some(MapPut(Val(@), path, Dispatch(pathItem, method, operation)))]

\* the Documents the goroutines start on: a new one, and one with an
\* operation under /x
RaceDocuments ==
    {NewDocument("Test API", "1.0.0"),
     AddOperation(NewDocument("Test API", "1.0.0"), "/x", "TRACE", OpB)}

InitRace ==
    /\ rdoc \in RaceDocuments
    /\ req \in [Goroutines -> [path : PathNames, method : KnownMethods,
                               operation : {OpA}]]
    /\ pc = [g \in Goroutines |-> "call"]
    /\ held = [g \in Goroutines |-> EmptyPathItem]
    /\ log = <<>>
    /\ APIdle
    /\ DocIdle
    /\ ValueIdle
    /\ TwoIdle
    /\ PathIdle
    /\ SliceIdle

\* goroutine g runs pathItem := d.GetPath(path)
RaceGetPath(g) ==
    /\ pc[g] = "call"
    /\ LET got == GetPath(rdoc, req[g].path)
       IN /\ rdoc' = got.doc
          /\ held' = [held EXCEPT ![g] = got.item]
    /\ pc' = [pc EXCEPT ![g] = "got"]
    /\ log' = Append(log, [g |-> g, step |-> "get"])
    /\ UNCHANGED req
    /\ UNCHANGED <<apVars, docVars, valVars, twoVars, pathVars, sliceVars>>

\* goroutine g runs the switch and d.Paths[path] = *pathItem, and returns
RaceStoreBack(g) ==
    /\ pc[g] = "got"
    /\ rdoc' = StoreBack(rdoc, req[g].path, held[g], req[g].method, req[g].operation)
    /\ pc' = [pc EXCEPT ![g] = "done"]
    /\ log' = Append(log, [g |-> g, step |-> "store"])
    /\ UNCHANGED <<req, held>>
    /\ UNCHANGED <<apVars, docVars, valVars, twoVars, pathVars, sliceVars>>

NextRace ==
    \/ \E g \in Goroutines : RaceGetPath(g)
    \/ \E g \in Goroutines : RaceStoreBack(g)

SpecRace == InitRace /\ [][NextRace]_vars

----------------------------------------------------------------------------
(* Properties of AdditionalProperties, checked under SpecAP *)

Marshalled == apLast.op = "MarshalJSON"

Unmarshalled == apLast.op \in {"UnmarshalJSON", "RoundTrip"}

ExactlyOne(a) == IsNil(a.Bool) # IsNil(a.Schema)

\* C3: MarshalJSON writes the bare boolean when Bool is populated, also when
\* Schema is populated too; otherwise the nested schema's own encoding when
\* Schema is populated; otherwise the literal false. The output is never an
\* object with the two alternatives as keys.
C3_MarshalPrecedence ==
    Marshalled =>
        /\ ~IsNil(apLast.pre.Bool) => data = JBool(Val(apLast.pre.Bool))
        /\ IsNil(apLast.pre.Bool) /\ ~IsNil(apLast.pre.Schema)
              => data = EncodeSchema(Val(apLast.pre.Schema))
        /\ IsNil(apLast.pre.Bool) /\ IsNil(apLast.pre.Schema) => data = JBool(FALSE)
        /\ data.k \in {"bool", "object"}
        /\ data.k = "object" => DOMAIN data.o \cap {"Bool", "Schema"} = {}
        /\ err = NoError

\* a receiver with both alternatives populated has been encoded as its boolean
C3_Witness ==
    /\ Marshalled
    /\ ~IsNil(apLast.pre.Bool) /\ ~IsNil(apLast.pre.Schema)
    /\ data = JBool(Val(apLast.pre.Bool))

\* C4 as stated: a boolean input populates Bool and clears Schema, every
\* non-boolean input that decodes as a schema populates Schema and clears Bool,
\* and a successful decode leaves exactly one alternative populated.
C4_AsStated ==
    Unmarshalled /\ err = NoError =>
        /\ data.k = "bool" => ap = [Bool |-> Some(data.b), Schema |-> Nil]
        /\ data.k # "bool" /\ IsOk(DecodeSchema(data))
              => ap = [Bool |-> Nil, Schema |-> Some(DecodeSchema(data).val)]
        /\ ExactlyOne(ap)

\* C4 as amended: the boolean attempt also accepts the JSON null and yields
\* false for it; a boolean or null input populates Bool and clears Schema, any
\* other input that decodes as a schema populates Schema and clears Bool, and a
\* successful decode leaves exactly one alternative populated, whatever the
\* receiver held.
C4_BoolFirstThenSchema ==
    Unmarshalled /\ err = NoError =>
        /\ data.k = "bool" => ap = [Bool |-> Some(data.b), Schema |-> Nil]
        /\ data.k = "null" => ap = [Bool |-> Some(FALSE), Schema |-> Nil]
        /\ data.k \notin {"bool", "null"}
              => /\ IsOk(DecodeSchema(data))
                 /\ ap = [Bool |-> Nil, Schema |-> Some(DecodeSchema(data).val)]
        /\ ExactlyOne(ap)

\* a receiver that held a boolean has decoded an object: Schema is populated
\* and Bool is cleared
C4_Witness ==
    /\ apLast.op = "UnmarshalJSON" /\ err = NoError
    /\ data.k = "object"
    /\ ~IsNil(apLast.pre.Bool)
    /\ IsNil(ap.Bool) /\ ~IsNil(ap.Schema)

\* C5: on an input that is neither accepted as a boolean nor decodes as a
\* schema, UnmarshalJSON fails with the boolean attempt's error (the input's
\* kind against the Go type bool), not the schema attempt's.
C5_BooleanErrorReturned ==
    Unmarshalled /\ ~IsOk(DecodeBool(data)) /\ ~IsOk(DecodeSchema(data)) =>
        /\ err # NoError
        /\ err = TypeError(data.k, "bool", "")
        /\ err # DecodeSchema(data).err

\* an object with a wrongly typed schema field has been rejected
C5_Witness ==
    /\ apLast.op = "UnmarshalJSON"
    /\ data = JObj([type |-> JNum(1)])
    /\ err = TypeError("object", "bool", "")

\* C6: when UnmarshalJSON returns an error, Bool and Schema of the receiver are
\* what they were before the call.
C6_FailedDecodeKeepsReceiver ==
    Unmarshalled /\ err # NoError => ap = apLast.pre

\* a receiver holding a schema has rejected a string and still holds the schema
C6_Witness ==
    /\ apLast.op = "UnmarshalJSON" /\ err # NoError
    /\ data = JStr("x")
    /\ ~IsNil(apLast.pre.Schema)
    /\ ap = apLast.pre

RECURSIVE WithoutEmpty(_)

\* a schema with every empty collection replaced by an absent one
WithoutEmpty(s) ==
    [Type |-> s.Type,
     Maximum |-> s.Maximum,
     Minimum |-> s.Minimum,
     MaxLength |-> s.MaxLength,
     MinLength |-> s.MinLength,
     MaxItems |-> s.MaxItems,
     MinItems |-> s.MinItems,
     Required |->
        IF ~IsNil(s.Required) /\ Len(Val(s.Required)) = 0 THEN Nil ELSE s.Required,
     Properties |->
        IF IsNil(s.Properties) \/ DOMAIN Val(s.Properties) = {} THEN Nil
        ELSE Some([k \in DOMAIN Val(s.Properties) |-> WithoutEmpty(Val(s.Properties)[k])]),
     AdditionalProperties |->
        IF IsNil(s.AdditionalProperties) \/ IsNil(Val(s.AdditionalProperties).Schema)
        THEN s.AdditionalProperties
        ELSE Some([Bool |-> Val(s.AdditionalProperties).Bool,
                   Schema |-> Some(WithoutEmpty(Val(Val(s.AdditionalProperties).Schema)))])]

WithoutEmptyAP(a) ==
    IF IsNil(a.Schema) THEN a
    ELSE [Bool |-> a.Bool, Schema |-> Some(WithoutEmpty(Val(a.Schema)))]

\* C7: encoding a value with exactly one alternative populated and decoding the
\* output, into any receiver, succeeds and gives the value back: {Bool: b}
\* gives {Bool: b, Schema: nil} and {Schema: s} gives {Bool: nil, Schema: s},
\* also for s with additionalProperties of its own. (An empty non-nil
\* collection inside s is not written, so it is read back absent.)
C7_RoundTrip ==
    apLast.op = "RoundTrip" /\ ExactlyOne(apLast.src) =>
        /\ err = NoError
        /\ ~IsNil(apLast.src.Bool) => ap = [Bool |-> apLast.src.Bool, Schema |-> Nil]
        /\ WithoutEmptyAP(apLast.src) = apLast.src => ap = apLast.src
        /\ ap = WithoutEmptyAP(apLast.src)

\* a schema with additionalProperties of its own has been encoded and decoded
\* into a receiver that had both fields populated, and came back equal
C7_Witness ==
    /\ apLast.op = "RoundTrip"
    /\ apLast.pre = BothPopulated
    /\ IsNil(apLast.src.Bool) /\ ~IsNil(apLast.src.Schema)
    /\ ~IsNil(Val(apLast.src.Schema).AdditionalProperties)
    /\ ~IsNil(Val(apLast.src.Schema).MinLength)
    /\ ap = apLast.src

----------------------------------------------------------------------------
(* Properties of the Document builders, checked under Spec *)

\* the Paths map, with a nil map read as the empty one
PathsOf(d) == IF IsNil(d.Paths) THEN EmptyMap ELSE Val(d.Paths)

\* the PathItem stored for a path, PathItem{} when there is none
ItemAt(d, path) ==
    IF path \in DOMAIN PathsOf(d) THEN PathsOf(d)[path] ELSE EmptyPathItem

\* C1: after AddOperation(p, m, op) with m one of the eight recognized method
\* names, Paths[p] is its previous value (an empty PathItem if p was absent)
\* with slot m replaced by op: the other seven slots of Paths[p] and the entry
\* of every other path are unchanged, and no path other than p is added.
C1_AddOperationFrame ==
    last.op = "AddOperation" /\ last.args[2] \in KnownMethods =>
        LET path == last.args[1]
            slot == SlotOf[last.args[2]]
        IN /\ DOMAIN PathsOf(doc) = DOMAIN PathsOf(last.pre) \cup {path}
           /\ ItemAt(doc, path)[slot] = Some(last.args[3])
           /\ \A s \in Slots \ {slot} : ItemAt(doc, path)[s] = ItemAt(last.pre, path)[s]
           /\ \A q \in DOMAIN PathsOf(last.pre) \ {path} :
                  PathsOf(doc)[q] = PathsOf(last.pre)[q]

\* GET on /x followed by POST on /x: both slots hold their operations
C1_Witness ==
    /\ last.op = "AddOperation"
    /\ last.args = <<"/x", "POST", OpB>>
    /\ ItemAt(last.pre, "/x").Get = Some(OpA)
    /\ IsNil(ItemAt(last.pre, "/x").Post)
    /\ ItemAt(doc, "/x").Get = Some(OpA)
    /\ ItemAt(doc, "/x").Post = Some(OpB)

\* C2: AddOperation with a method name that is not one of the eight recognized
\* names returns the Document it was called on (it has no error result) and
\* leaves every operation slot of every PathItem as it was: the entries that
\* existed are unchanged and an entry the call created has every slot unset.
C2_UnknownMethodIgnored ==
    last.op = "AddOperation" /\ last.args[2] \notin KnownMethods =>
        /\ ret = Self
        /\ \A q \in DOMAIN PathsOf(doc) :
              \A s \in Slots : PathsOf(doc)[q][s] = ItemAt(last.pre, q)[s]
        /\ \A q \in DOMAIN PathsOf(last.pre) :
              q \in DOMAIN PathsOf(doc) /\ PathsOf(doc)[q] = PathsOf(last.pre)[q]

\* "get" has been given for a path whose GET slot held an operation
C2_Witness ==
    /\ last.op = "AddOperation"
    /\ last.args = <<"/x", "get", OpB>>
    /\ ItemAt(last.pre, "/x").Get = Some(OpA)
    /\ ItemAt(doc, "/x") = ItemAt(last.pre, "/x")
    /\ ret = Self

\* C10: the Document NewDocument returns has a non-nil, empty path mapping and
\* a non-nil, empty tag list, and after any sequence of root builder calls the
\* path mapping and the tag list are still non-nil.
C10_PathsAndTagsNonNil ==
    /\ ~IsNil(doc.Paths)
    /\ ~IsNil(doc.Tags)
    /\ calls = 0 => DOMAIN Val(doc.Paths) = {} /\ Len(Val(doc.Tags)) = 0

\* two builder calls have been made, the last one on the paths
C10_Witness ==
    /\ calls >= 2
    /\ last.op = "AddOperation"
    /\ last.pre # NewDocument(created.title, created.version)
    /\ ~IsNil(doc.Paths)
    /\ ~IsNil(doc.Tags)


----------------------------------------------------------------------------
(* A Document with every field that is at its zero or empty state unset: a    *)
(* nil or empty list or map that is optional in the encoding reads nil, and   *)
(* every other field reads as it is.                                          *)

WithoutEmptyOpt(o, F(_)) == IF IsNil(o) THEN Nil ELSE Some(F(Val(o)))

\* an optional list or map: unset when it holds nothing
WithoutEmptyAll(c, F(_)) ==
    IF IsEmpty(c) THEN Nil ELSE Some([k \in DOMAIN Val(c) |-> F(Val(c)[k])])

\* a required list or map: kept also when it holds nothing
WithoutEmptyEach(c, F(_)) ==
    IF IsNil(c) THEN Nil ELSE Some([k \in DOMAIN Val(c) |-> F(Val(c)[k])])

Same(x) == x

WithoutEmptyMediaType(m) ==
    [Schema |-> WithoutEmptyOpt(m.Schema, WithoutEmpty),
     Examples |-> WithoutEmptyAll(m.Examples, Same),
     Encoding |-> WithoutEmptyAll(m.Encoding, Same)]

WithoutEmptyResponse(r) ==
    [Description |-> r.Description,
     Headers |-> WithoutEmptyAll(r.Headers, Same),
     Content |-> WithoutEmptyAll(r.Content, WithoutEmptyMediaType),
     Links |-> WithoutEmptyAll(r.Links, Same)]

WithoutEmptyParameter(q) ==
    [q EXCEPT !.Schema = WithoutEmptyOpt(@, WithoutEmpty),
              !.Examples = WithoutEmptyAll(@, Same),
              !.Content = WithoutEmptyAll(@, Same)]

WithoutEmptyOperation(o) ==
    [Tags |-> WithoutEmptyAll(o.Tags, Same),
     Summary |-> o.Summary,
     Description |-> o.Description,
     OperationID |-> o.OperationID,
     Parameters |-> WithoutEmptyAll(o.Parameters, WithoutEmptyParameter),
     Responses |-> WithoutEmptyEach(o.Responses, WithoutEmptyResponse)]

WithoutEmptyPathItem(item) ==
    [s \in Slots |-> WithoutEmptyOpt(item[s], WithoutEmptyOperation)]

WithoutEmptyServer(s) == [s EXCEPT !.Variables = WithoutEmptyAll(@, Same)]

WithoutEmptyComponents(c) ==
    [Schemas |-> WithoutEmptyAll(c.Schemas, WithoutEmpty),
     Responses |-> WithoutEmptyAll(c.Responses, Same),
     Parameters |-> WithoutEmptyAll(c.Parameters, Same),
     Examples |-> WithoutEmptyAll(c.Examples, Same),
     RequestBodies |-> WithoutEmptyAll(c.RequestBodies, Same),
     Headers |-> WithoutEmptyAll(c.Headers, Same),
     SecuritySchemes |-> WithoutEmptyAll(c.SecuritySchemes, Same),
     Links |-> WithoutEmptyAll(c.Links, Same),
     Callbacks |-> WithoutEmptyAll(c.Callbacks, Same)]

WithoutEmptyDocument(d) ==
    [OpenAPI |-> d.OpenAPI,
     Info |-> d.Info,
     Servers |-> WithoutEmptyAll(d.Servers, WithoutEmptyServer),
     Paths |-> WithoutEmptyEach(d.Paths, WithoutEmptyPathItem),
     Components |-> WithoutEmptyOpt(d.Components, WithoutEmptyComponents),
     Security |-> WithoutEmptyAll(d.Security, Same),
     Tags |-> WithoutEmptyAll(d.Tags, Same),
     ExternalDocs |-> d.ExternalDocs]

C9_TitleAndVersionSurvive ==
    rt.stage = "decoded" =>
        /\ rt.doc.Info.Title = created.title
        /\ rt.doc.Info.Version = created.version

\* a Document whose Info was changed by WithInfo and WithContact has been
\* encoded and decoded
C9_Witness ==
    /\ rt.stage = "decoded"
    /\ created = [title |-> "Test API", version |-> "1.0.0"]
    /\ doc.Info.Description = "An API"
    /\ ~IsNil(doc.Info.Contact)
    /\ rt.doc.Info.Title = "Test API"
    /\ rt.doc.Info.Version = "1.0.0"
    /\ rt.doc.Info.Description = "An API"

----------------------------------------------------------------------------
(* The version tag *)

\* C11: every Document NewDocument returns carries the version tag "3.1.0" in
\* its OpenAPI field, no builder call changes the tag, and the openapi key of
\* the encoded Document is "3.1.0".
C11_VersionTag ==
    /\ doc.OpenAPI = "3.1.0"
    /\ rt.stage = "encoded" => Field(rt.json, "openapi") = JStr("3.1.0")

----------------------------------------------------------------------------
(* The builders of the root Document that return *Document *)

DocumentBuilders ==
    {"WithInfo", "WithContact", "WithLicense", "AddServer", "AddTag",
     "AddTagWithDocs", "SetExternalDocs", "SetPath", "AddOperation", "AddSchema",
     "AddSecurityScheme", "AddSecurityRequirement"}

\* a list that may be nil, as a sequence
ListOf(s) == IF IsNil(s) THEN <<>> ELSE Val(s)

\* the last call appended one element to the list
Appended(before, after) ==
    /\ Len(ListOf(after)) = Len(ListOf(before)) + 1
    /\ SubSeq(ListOf(after), 1, Len(ListOf(before))) = ListOf(before)

\* what the last call stored, read through the pointer the caller holds
StoredInPlace ==
    LET a == last.args
    IN CASE last.op = "WithInfo" ->
              doc.Info.Description = a[1] /\ doc.Info.TermsOfService = a[2]
         [] last.op = "WithContact" ->
              doc.Info.Contact = Some([Name |-> a[1], URL |-> a[2], Email |-> a[3]])
         [] last.op = "WithLicense" ->
              doc.Info.License = Some([Name |-> a[1], URL |-> a[2]])
         [] last.op = "AddServer" ->
              /\ Appended(last.pre.Servers, doc.Servers)
              /\ ListOf(doc.Servers)[Len(ListOf(doc.Servers))].URL = a[1]
         [] last.op \in {"AddTag", "AddTagWithDocs"} ->
              /\ Appended(last.pre.Tags, doc.Tags)
              /\ ListOf(doc.Tags)[Len(ListOf(doc.Tags))].Name = a[1]
         [] last.op = "SetExternalDocs" ->
              doc.ExternalDocs = Some([URL |-> a[1], Description |-> a[2]])
         [] last.op = "SetPath" -> ItemAt(doc, a[1]) = a[2]
         [] last.op = "AddOperation" ->
              /\ a[1] \in DOMAIN PathsOf(doc)
              /\ a[2] \in KnownMethods => ItemAt(doc, a[1])[SlotOf[a[2]]] = Some(a[3])
         [] last.op = "AddSchema" ->
              /\ ~IsNil(doc.Components)
              /\ Val(Val(doc.Components).Schemas)[a[1]] = a[2]
         [] last.op = "AddSecurityScheme" ->
              /\ ~IsNil(doc.Components)
              /\ Val(Val(doc.Components).SecuritySchemes)[a[1]] = a[2]
         [] last.op = "AddSecurityRequirement" ->
              /\ Appended(last.pre.Security, doc.Security)
              /\ ListOf(doc.Security)[Len(ListOf(doc.Security))] = a[1]

\* C12: each of the twelve builders of the root Document that return *Document
\* stores what it was given in the Document it was called on and returns the
\* pointer it was called on, so the next call of a chain is made on the same
\* Document as a call made on the original pointer.
C12_BuildersReturnReceiver ==
    last.op \in DocumentBuilders => ret = Self /\ StoredInPlace

\* a chain of two: WithInfo, then AddSchema on what WithInfo returned
C12_Witness ==
    /\ calls = 2
    /\ last.op = "AddSchema"
    /\ last.pre.Info.Description = "An API"
    /\ IsNil(last.pre.Components)
    /\ doc.Info.Description = "An API"
    /\ Val(Val(doc.Components).Schemas)["Pet"] = last.args[2]
    /\ ret = Self

----------------------------------------------------------------------------
(* Properties of the constructors and With builders of the nested types,     *)
(* checked under SpecValue                                                   *)

\* x is a value as one of the constructors returns it
FromConstructor(x) == \E c \in {y \in Constructed : y.type = x.type} : c = x

\* the types whose With builders have a value receiver
ValueTypes == DOMAIN MapFields

\* C13: a With builder called on a value built by its constructor, with the
\* result discarded, is a no-op: every field of the receiver, the contents of
\* its maps included, is after the call as it was before.
C13_DiscardedCallIsNoOp ==
    steps = 1 /\ FromConstructor(vlast.pre) /\ vlast.pre.type \in ValueTypes
        => kept = vlast.pre

\* the collection-typed fields of a value (a Callback is itself a map)
Collections(x) ==
    IF x.type = "Callback" THEN {x.v} ELSE {x.v[f] : f \in CollectionFields[x.type]}

\* C14: every constructor returns an instance in which every collection-typed
\* field, map or list, is non-nil.
C14_ConstructorsNonNil ==
    steps = 0 /\ FromConstructor(val) => \A c \in Collections(val) : ~IsNil(c)

\* C15: starting from what a constructor returns, no chain of With calls
\* inserts into a nil map: the maps the builders insert into without creating
\* them (Operation.Responses, OAuthFlow.Scopes, a Callback) are non-nil all
\* along the chain, and every other insert creates the map when it is nil.
C15_NoInsertIntoNilMap ==
    /\ ~panicked
    /\ val.type = "Operation" => ~IsNil(val.v.Responses)
    /\ val.type = "OAuthFlow" => ~IsNil(val.v.Scopes)
    /\ val.type = "Callback" => ~IsNil(val.v)

\* two responses added in a chain to what NewOperation returned, and a header
\* added to what NewJSONResponse returned, whose Headers map was nil
C15_Witness ==
    \/ /\ steps = 2
       /\ val.type = "Operation"
       /\ vlast.op = "WithResponse"
       /\ DOMAIN Val(val.v.Responses) = {"200", "404"}
       /\ ~panicked
    \/ /\ val.type = "Response"
       /\ vlast.op = "WithHeader"
       /\ IsNil(vlast.pre.v.Headers)
       /\ ~IsNil(val.v.Headers)
       /\ ~panicked

----------------------------------------------------------------------------
(* Properties of the serialized form *)

\* the operation objects of an encoded document: the members of the members
\* of its paths object
OperationObjects(j) ==
    LET paths == Field(j, "paths") IN
    IF paths.k # "object" THEN {}
    ELSE UNION {IF paths.o[p].k # "object" THEN {}
                ELSE {paths.o[p].o[m] : m \in DOMAIN paths.o[p].o} : p \in DOMAIN paths.o}

\* C16: in the serialized form of a document every operation object has a
\* responses key whose value is an object, never null and never absent.
C16_ResponsesIsObject ==
    rt.stage # "none" =>
        \A op \in OperationObjects(rt.json) :
            /\ op.k = "object"
            /\ "responses" \in DOMAIN op.o
            /\ op.o["responses"].k = "object"

\* the media types a Response holds
MediaTypesOf(r) == IF IsNil(r.Content) THEN {} ELSE DOMAIN Val(r.Content)

\* C17: the encoding of a Response always has the description key, and has
\* the content key exactly when the Response holds at least one media type: a
\* Response that carries only a description (from NewResponse or a literal)
\* encodes without a content key.
C17_ContentOnlyWhenAdded ==
    val.type = "Response" /\ rt.stage = "encoded" =>
        /\ rt.json.k = "object"
        /\ "description" \in DOMAIN rt.json.o
        /\ rt.json.o["description"] = JStr(val.v.Description)
        /\ "content" \in DOMAIN rt.json.o <=> MediaTypesOf(val.v) # {}
        /\ "content" \in DOMAIN rt.json.o =>
               /\ rt.json.o["content"].k = "object"
               /\ DOMAIN rt.json.o["content"].o = MediaTypesOf(val.v)

\* encoded: a literal Response with only a description; one from NewResponse
\* (its Content an empty map) to which only a header was added; one to which
\* a media type was added
C17_Witness ==
    /\ val.type = "Response"
    /\ rt.stage = "encoded"
    /\ \/ steps = 0 /\ ~FromConstructor(val) /\ MediaTypesOf(val.v) = {}
       \/ /\ vlast.op = "WithHeader"
          /\ val.v.Content = Some(EmptyMap)
          /\ "headers" \in DOMAIN rt.json.o
       \/ /\ vlast.op = "WithContent"
          /\ IsEmpty(vlast.pre.v.Content)
          /\ "content" \in DOMAIN rt.json.o

\* C18: a pointer-typed constraint of a Schema that a With builder set, to zero
\* included, is in the encoding with its value and is set to that value after
\* decoding; a constraint never set is not in the encoding and is unset after
\* decoding.
C18_ZeroConstraintKept ==
    val.type = "Schema" /\ rt.stage # "none" =>
        \A key \in DOMAIN ConstraintField :
            LET c == val.v[ConstraintField[key]] IN
            /\ key \in DOMAIN rt.json.o <=> ~IsNil(c)
            /\ ~IsNil(c) => rt.json.o[key] = JNum(Val(c))
            /\ rt.stage = "decoded" =>
                   /\ IsOk(rt.schema)
                   /\ rt.schema.val[ConstraintField[key]] = c

\* a Schema with minimum and maxItems set to 0 by their builders and the
\* other constraints never set, encoded and decoded
C18_Witness ==
    /\ val.type = "Schema"
    /\ rt.stage = "decoded"
    /\ val.v.Minimum = Some(0)
    /\ val.v.MaxItems = Some(0)
    /\ IsNil(val.v.MinLength)
    /\ rt.json.o["minimum"] = JNum(0)
    /\ "minLength" \notin DOMAIN rt.json.o
    /\ rt.schema.val.Minimum = Some(0)
    /\ IsNil(rt.schema.val.MinLength)
----------------------------------------------------------------------------
(* Properties of two callers' Documents, checked under SpecTwo *)

\* caller i has an output, and has not called a builder since
Current(i) == out[i].at >= 0 /\ out[i].at = Len(hist[i])

C19_SameContentSameOutput ==
    \A i, j \in Callers :
        Current(i) /\ Current(j) /\ Load(mem, dptr[i]) = Load(mem, dptr[j])
            => out[i].json = out[j].json /\ out[i].paths = out[j].paths

C19_RepeatedToJSON ==
    \A i \in Callers :
        Current(i) /\ hist'[i] = hist[i] /\ Load(mem', dptr[i]) = Load(mem, dptr[i])
            => out'[i] = out[i]

\* C19: ToJSON depends on the content of the Document only: two Documents
\* with the same content have the same output, keys in the same order,
\* whatever the order their entries were inserted in and whatever the order
\* the maps are ranged over; and ToJSON called again on a Document no builder
\* was called on in between gives the output it gave before.
C19_Deterministic == []C19_SameContentSameOutput /\ [][C19_RepeatedToJSON]_vars

\* both callers added /x and /y, in different orders, and each has its output
C19_Witness ==
    /\ Current(1) /\ Current(2)
    /\ Len(hist[1]) = 2
    /\ hist[1] # hist[2]
    /\ Load(mem, dptr[1]) = Load(mem, dptr[2])
    /\ out[1].paths = <<"/x", "/y">>
    /\ out[2].paths = <<"/x", "/y">>

RECURSIVE Replay(_, _)
\* the Document a caller gets on its own: the calls of h made one after the
\* other on d
Replay(d, h) == IF h = <<>> THEN d ELSE Replay(Apply(d, Head(h)), Tail(h))

Alone(i, n) == Replay(NewDocument("Test API", "1.0.0"), SubSeq(hist[i], 1, n))

\* the addresses of the objects caller i's Document is made of
Objects(i) ==
    {dptr[i]} \cup {Val(r) : r \in {x \in {mem[dptr[i]].Paths, mem[dptr[i]].Components} :
                                       ~IsNil(x)}}

\* C20: the Documents of two callers share no object, and under every
\* interleaving of their builder and ToJSON calls each Document is what its
\* caller's calls make of a new Document on their own, and each output is the
\* output of that Document.
C20_NoSharedState ==
    /\ Objects(1) \cap Objects(2) = {}
    /\ \A i \in Callers :
        /\ Load(mem, dptr[i]) = Alone(i, Len(hist[i]))
        /\ out[i].at >= 0 => out[i].json = ToJSON(Alone(i, out[i].at))

\* the callers took turns, each made two calls, both added to the path /x,
\* and each has the output of its final Document
C20_Witness ==
    /\ turn.switches >= 2
    /\ Len(hist[1]) = 2 /\ Len(hist[2]) = 2
    /\ hist[1] # hist[2]
    /\ "/x" \in DOMAIN Val(Load(mem, dptr[1]).Paths)
    /\ "/x" \in DOMAIN Val(Load(mem, dptr[2]).Paths)
    /\ ~IsNil(mem[dptr[1]].Components)
    /\ Current(1) /\ Current(2)
----------------------------------------------------------------------------
(* Properties of concurrent AddOperation calls, checked under SpecRace *)

\* both goroutines have returned, and they added to one path with different
\* methods
BothAdded ==
    /\ \A g \in Goroutines : pc[g] = "done"
    /\ req[1].path = req[2].path
    /\ req[1].method # req[2].method

\* the operation of goroutine g is not in the slot it was added to
Lost(g) ==
    Val(rdoc.Paths)[req[g].path][SlotOf[req[g].method]] # Some(req[g].operation)

\* C21: two unsynchronized AddOperation calls on one Document and one path
\* with different methods lose an update exactly when the second call read
\* the PathItem before the first wrote its copy back: then the operation
\* written first is missing, and such an interleaving exists.
C21_LostUpdate ==
    BothAdded =>
        /\ (\E g \in Goroutines : Lost(g)) <=> log[2].step = "get"
        /\ log[2].step = "get" => Lost(log[3].g) /\ ~Lost(log[4].g)

\* both calls returned and the operation of goroutine 1 is missing
C21_Witness == BothAdded /\ Lost(1) /\ ~Lost(2)
----------------------------------------------------------------------------
(* Properties of an Operation added to a Document, checked under SpecValue *)

\* C22: AddOperation stores a snapshot of the operation it is given: the
\* operation in the slot of each method it was added under is the operation
\* as it was when it was added, whatever builder the caller calls on its own
\* value afterwards.
C22_StoredOperationIsSnapshot ==
    \A method \in DOMAIN snap :
        Val(sdoc.Paths)["/x"][SlotOf[method]] = Some(snap[method])

----------------------------------------------------------------------------
(* More properties of the Document builders, checked under Spec *)

\* C24: AddOperation with a method name that is none of the eight recognized
\* ones leaves the set of paths of the document as it was, also when the
\* given path was not in the document.
C24_UnknownMethodKeepsPaths ==
    last.op = "AddOperation" /\ last.args[2] \notin KnownMethods =>
        DOMAIN PathsOf(doc) = DOMAIN PathsOf(last.pre)

----------------------------------------------------------------------------
(* The *PathItem of AddPath and GetPath in the caller's hands.  Paths is a   *)
(* map[string]PathItem: AddPath and GetPath copy the entry into a local      *)
(* variable and return its address, so the pointer leads to pptr, a PathItem *)
(* of its own, and never into the map.                                       *)

\* how many calls and assignments the caller makes
MaxPathCalls == 3

\* the pointer AddPath(path) or GetPath(path) returned
PointerTo(path, pathItem) == [of |-> path, item |-> pathItem]

\* a mutant of AssignThrough: the pointer leads into the map, so the assignment
\* is seen in Paths as well
AssignThroughIntoMap(d, p, method, operation) ==
    [doc |-> SetPath(d, p.of, Dispatch(p.item, method, operation)),
     ptr |-> [p EXCEPT !.item = Dispatch(@, method, operation)]]

\* pathItem.Get = &operation, and so on for the other slots, through the
\* pointer p: the PathItem p leads to changes, the Document does not
AssignThrough(d, p, method, operation) ==
    [doc |-> d,
     ptr |-> [p EXCEPT !.item = Dispatch(@, method, operation)]]

InitPath ==
    /\ created = [title |-> "Test API", version |-> "1.0.0"]
    /\ doc \in {NewDocument(created.title, created.version),
                AddOperation(NewDocument(created.title, created.version),
                             "/x", "TRACE", OpB)}
    /\ calls = 0
    /\ ret = Self
    /\ last = [op |-> "NewDocument", args |-> <<created.title, created.version>>,
               pre |-> doc]
    /\ rt = NoRoundTrip
    /\ pptr = NoPointer
    /\ APIdle
    /\ ValueIdle
    /\ TwoIdle
    /\ RaceIdle
    /\ SliceIdle

\* one statement of the caller: the Document and the pointer after it
PathCall(op, args, after, pointer) ==
    /\ calls < MaxPathCalls
    /\ calls' = calls + 1
    /\ doc' = after
    /\ pptr' = pointer
    /\ last' = [op |-> op, args |-> args, pre |-> doc, ptr |-> pptr]
    /\ UNCHANGED <<created, ret, rt>>
    /\ UNCHANGED <<apVars, valVars, twoVars, raceVars, sliceVars>>

\* pathItem := doc.AddPath(path)
PathAddPath(path) ==
    PathCall("AddPath", <<path>>, AddPath(doc, path).doc,
             PointerTo(path, AddPath(doc, path).item))

\* pathItem := doc.GetPath(path)
PathGetPath(path) ==
    PathCall("GetPath", <<path>>, GetPath(doc, path).doc,
             PointerTo(path, GetPath(doc, path).item))

\* pathItem.Get = &operation, or another slot
PathAssign(method, operation) ==
    /\ pptr # NoPointer
    /\ PathCall("Assign", <<method, operation>>,
                AssignThrough(doc, pptr, method, operation).doc,
                AssignThrough(doc, pptr, method, operation).ptr)

\* doc.SetPath(path, *pathItem)
PathSetPath(path) ==
    /\ pptr # NoPointer
    /\ PathCall("SetPath", <<path, pptr.item>>, SetPath(doc, path, pptr.item), pptr)

\* doc.AddOperation(path, method, operation)
PathAddOperation(path, method, operation) ==
    PathCall("AddOperation", <<path, method, operation>>,
             AddOperation(doc, path, method, operation), pptr)

NextPath ==
    \/ \E path \in PathNames : PathAddPath(path)
    \/ \E path \in PathNames : PathGetPath(path)
    \/ \E method \in {"GET", "POST"}, operation \in Operations :
          PathAssign(method, operation)
    \/ \E path \in PathNames : PathSetPath(path)
    \/ \E path \in PathNames, method \in {"GET", "POST"} :
          PathAddOperation(path, method, OpA)

SpecPath == InitPath /\ [][NextPath]_vars

\* C23: the *PathItem of AddPath and GetPath is a copy of the map entry.
\* Assigning a slot through it changes the PathItem it leads to and leaves the
\* Document, Paths[path] included, as it was; SetPath(path, *pathItem) makes
\* Paths[path] the PathItem the pointer leads to, and AddOperation sets the
\* slot in Paths[path] without changing what the pointer leads to.
C23_PointerIsDetached ==
    /\ last.op = "Assign" =>
          /\ doc = last.pre
          /\ pptr.item = Dispatch(last.ptr.item, last.args[1], last.args[2])
          /\ pptr.item[SlotOf[last.args[1]]] = Some(last.args[2])
    /\ last.op = "SetPath" => ItemAt(doc, last.args[1]) = pptr.item
    /\ last.op = "AddOperation" =>
          /\ ItemAt(doc, last.args[1])[SlotOf[last.args[2]]] = Some(last.args[3])
          /\ pptr = last.ptr

\* a slot assigned through the pointer of GetPath is not in the Document, and
\* is there after SetPath
C23_Witness ==
    /\ last.op = "SetPath"
    /\ last.ptr.of = last.args[1]
    /\ ItemAt(last.pre, last.args[1]) # last.ptr.item
    /\ ItemAt(doc, last.args[1]).Get = Some(OpA)

\* C25: AddPath(p) leaves Paths[p] an empty PathItem, whatever was registered
\* under p before; GetPath(p) leaves the Document unchanged when p is present
\* and creates an empty PathItem for p when it is absent.  Both leave every
\* other path's entry, and every other field of the Document, unchanged.
C25_AddPathResetsGetPathKeeps ==
    /\ last.op = "AddPath" =>
          /\ PathsOf(doc) = MapPut(PathsOf(last.pre), last.args[1], EmptyPathItem)
          /\ [doc EXCEPT !.Paths = last.pre.Paths] = last.pre
          /\ pptr.item = EmptyPathItem
    /\ last.op = "GetPath" =>
          /\ IF last.args[1] \in DOMAIN PathsOf(last.pre)
             THEN doc = last.pre /\ pptr.item = PathsOf(last.pre)[last.args[1]]
             ELSE /\ PathsOf(doc) =
                       MapPut(PathsOf(last.pre), last.args[1], EmptyPathItem)
                  /\ pptr.item = EmptyPathItem
          /\ [doc EXCEPT !.Paths = last.pre.Paths] = last.pre

\* AddPath on a path that has an operation and beside a path that has one too
C25_Witness ==
    /\ last.op = "AddPath"
    /\ ItemAt(last.pre, last.args[1]) # EmptyPathItem
    /\ \E other \in DOMAIN PathsOf(doc) \ {last.args[1]} :
          PathsOf(doc)[other] # EmptyPathItem

----------------------------------------------------------------------------
(* The list-appending builders on values: WithTag, WithTags, WithParameter,  *)
(* WithRequired and WithRequiredProperty take their receiver by value and    *)
(* append to one of its slices.  The copy of the receiver has a slice header *)
(* of its own (pointer, length, capacity) and shares the backing array, and  *)
(* append writes into that array when the capacity allows it.                *)

\* how long the list of the Operation the builders are called on gets
MaxTags == 3

\* how many Operations are derived from it
MaxDerived == 2

TagNames == {"x", "y"}

\* the elements of the slice s
Elems(h, s) == [i \in 1 .. s.len |-> h[s.arr][i]]

\* the capacities append may give a new backing array for n elements when the
\* old one had capacity c: the language asks only for enough room; gc doubles
NewCaps(c, n) == {n, IF 2 * c > n THEN 2 * c ELSE n}

\* append(s, e): the heap and the slice header after it.  With room left, the
\* element is written into the backing array of s; without, into a new array
\* of capacity newcap that holds a copy of the elements of s
SliceAppend(h, s, e, newcap) ==
    IF s.len < s.cap
    THEN [heap |-> [h EXCEPT ![s.arr][s.len + 1] = e],
          slice |-> [s EXCEPT !.len = @ + 1]]
    ELSE [heap |-> Append(h, [i \in 1 .. newcap |->
                                 IF i <= s.len THEN h[s.arr][i]
                                 ELSE IF i = s.len + 1 THEN e ELSE ""]),
          slice |-> [arr |-> Len(h) + 1, len |-> s.len + 1, cap |-> newcap]]

\* Operation.WithTag on a receiver whose Tags slice is s: the heap after the
\* call and the Tags slice of the Operation it returns
WithTagSlice(h, s, tag, newcap) == SliceAppend(h, s, tag, newcap)

InitSlice ==
    /\ heap = <<>>
    /\ base = NilSlice
    /\ derived = <<>>
    /\ APIdle
    /\ DocIdle
    /\ ValueIdle
    /\ TwoIdle
    /\ RaceIdle
    /\ PathIdle

\* op = op.WithTag(tag)
SliceGrow(tag) ==
    /\ base.len < MaxTags
    /\ derived = <<>>
    /\ \E newcap \in NewCaps(base.cap, base.len + 1) :
          LET r == WithTagSlice(heap, base, tag, newcap)
          IN /\ heap' = r.heap
             /\ base' = r.slice
    /\ UNCHANGED derived
    /\ UNCHANGED <<apVars, docVars, valVars, twoVars, raceVars, pathVars>>

\* a := op.WithTag(tag): another Operation derived from op, with the list it
\* has when it is returned
SliceDerive(tag) ==
    /\ Len(derived) < MaxDerived
    /\ \E newcap \in NewCaps(base.cap, base.len + 1) :
          LET r == WithTagSlice(heap, base, tag, newcap)
          IN /\ heap' = r.heap
             /\ derived' = Append(derived, [slice |-> r.slice,
                                            made |-> Elems(r.heap, r.slice)])
    /\ UNCHANGED base
    /\ UNCHANGED <<apVars, docVars, valVars, twoVars, raceVars, pathVars>>

\* b = b.WithTag(tag) on the Operation derived last
SliceExtend(tag) ==
    /\ Len(derived) = MaxDerived
    /\ derived[Len(derived)].slice.len <= MaxTags + 1
    /\ LET b == derived[Len(derived)].slice IN
       \E newcap \in NewCaps(b.cap, b.len + 1) :
          LET r == WithTagSlice(heap, b, tag, newcap)
          IN /\ heap' = r.heap
             /\ derived' = [derived EXCEPT ![Len(derived)] =
                               [slice |-> r.slice, made |-> Elems(r.heap, r.slice)]]
    /\ UNCHANGED base
    /\ UNCHANGED <<apVars, docVars, valVars, twoVars, raceVars, pathVars>>

NextSlice ==
    \/ \E tag \in TagNames : SliceGrow(tag)
    \/ \E tag \in TagNames : SliceDerive(tag)
    \/ \E tag \in TagNames : SliceExtend(tag)

SpecSlice == InitSlice /\ [][NextSlice]_vars

\* C26: the values derived from one receiver by list-appending builders are
\* independent: the list of each, read at any later time, is the list it had
\* when it was returned, ending with its own element, whatever calls produced
\* other values from the same receiver since.
C26_DerivedIndependent ==
    \A i \in DOMAIN derived : Elems(heap, derived[i].slice) = derived[i].made

----------------------------------------------------------------------------
(* Required names of a Schema, checked under SpecValue *)

\* the names in Required, and the keys of Properties, of a Schema
RequiredOf(s) == IF IsNil(s.Required) THEN {} ELSE {Val(s.Required)[i] : i \in DOMAIN Val(s.Required)}

PropertyNames(s) == IF IsNil(s.Properties) THEN {} ELSE DOMAIN Val(s.Properties)

\* C28: a Schema from a schema constructor, built on with WithProperty and
\* WithRequiredProperty (WithRequired is not called), has every name of
\* Required among the keys of Properties after every call of the chain; so
\* has the receiver of the last call as its caller reads it afterwards.
C28_RequiredAreProperties ==
    val.type = "Schema" =>
        /\ RequiredOf(val.v) \subseteq PropertyNames(val.v)
        /\ RequiredOf(kept.v) \subseteq PropertyNames(kept.v)

\* two required properties, the second added to a Schema that had the first
C28_Witness ==
    /\ val.type = "Schema"
    /\ vlast.op = "WithRequiredProperty"
    /\ RequiredOf(vlast.pre.v) # {}
    /\ RequiredOf(val.v) = {"a", "b"}

----------------------------------------------------------------------------
(* The root builders called in sequence with varying arguments, with the     *)
(* calls made so far kept beside the Document.                               *)

\* how many root builder calls are chained
MaxRootCalls == 3

OwnerRequirement == [key \in {"apiKey"} |-> Some(<<"read">>)]

InitRoot ==
    /\ created \in {[title |-> "Test API", version |-> "1.0.0"],
                    [title |-> "", version |-> "2.1"]}
    /\ doc = NewDocument(created.title, created.version)
    /\ calls = 0
    /\ ret = Self
    /\ last = [op |-> "NewDocument", args |-> <<created.title, created.version>>,
               pre |-> doc, trace |-> <<>>]
    /\ rt = NoRoundTrip
    /\ APIdle
    /\ ValueIdle
    /\ TwoIdle
    /\ RaceIdle
    /\ PathIdle
    /\ SliceIdle

\* one root builder call on doc; trace is the calls made so far, in order
RootCall(op, args, after) ==
    /\ calls < MaxRootCalls
    /\ calls' = calls + 1
    /\ doc' = after
    /\ last' = [op |-> op, args |-> args, pre |-> doc,
                trace |-> Append(last.trace, [op |-> op, args |-> args])]
    /\ UNCHANGED <<created, ret, rt>>
    /\ UNCHANGED <<apVars, valVars, twoVars, raceVars, pathVars, sliceVars>>

RootWithInfo(description) ==
    RootCall("WithInfo", <<description, "https://tos">>,
             WithInfo(doc, description, "https://tos"))

RootWithContact(name) ==
    RootCall("WithContact", <<name, "", "ann@example.com">>,
             WithContact(doc, name, "", "ann@example.com"))

RootWithLicense ==
    RootCall("WithLicense", <<"MIT", "https://mit">>,
             WithLicense(doc, "MIT", "https://mit"))

RootAddServer(url) ==
    RootCall("AddServer", <<url, "">>, AddServer(doc, url, ""))

RootAddTag(name) ==
    RootCall("AddTag", <<name, "">>, AddTag(doc, name, ""))

RootAddTagWithDocs ==
    RootCall("AddTagWithDocs", <<"y", "Y things", "https://docs", "">>,
             AddTagWithDocs(doc, "y", "Y things", "https://docs", ""))

RootSetExternalDocs ==
    RootCall("SetExternalDocs", <<"https://docs", "Docs">>,
             SetExternalDocs(doc, "https://docs", "Docs"))

RootAddOperation ==
    RootCall("AddOperation", <<"/x", "GET", OpA>>, AddOperation(doc, "/x", "GET", OpA))

RootAddComponents == RootCall("AddComponents", <<>>, AddComponents(doc))

RootAddSchema(name, schema) ==
    RootCall("AddSchema", <<name, schema>>, AddSchema(doc, name, schema))

RootAddSecurityScheme(name) ==
    RootCall("AddSecurityScheme", <<name, BearerScheme>>,
             AddSecurityScheme(doc, name, BearerScheme))

RootAddSecurityRequirement(requirement) ==
    RootCall("AddSecurityRequirement", <<requirement>>,
             AddSecurityRequirement(doc, requirement))

NextRoot ==
    \/ \E description \in {"", "An API"} : RootWithInfo(description)
    \/ \E name \in {"Ann", "Bob"} : RootWithContact(name)
    \/ RootWithLicense
    \/ \E url \in {"https://api", "https://dev"} : RootAddServer(url)
    \/ \E name \in {"x", "y"} : RootAddTag(name)
    \/ RootAddTagWithDocs
    \/ RootSetExternalDocs
    \/ RootAddOperation
    \/ RootAddComponents
    \/ \E name \in {"Pet", "Owner"}, schema \in {NewObjectSchema, NewStringSchema} :
          RootAddSchema(name, schema)
    \/ \E name \in {"bearerAuth", "Pet"} : RootAddSecurityScheme(name)
    \/ \E requirement \in {BearerRequirement, OwnerRequirement} :
          RootAddSecurityRequirement(requirement)

SpecRoot == InitRoot /\ [][NextRoot]_vars

\* the calls of the trace that are calls of one of the builders ops
CallsOf(trace, ops) == SelectSeq(trace, LAMBDA c : c.op \in ops)

\* the arguments the last call of the builder op for a name was made with
LastFor(trace, op, name) ==
    LET at == {i \in DOMAIN trace : trace[i].op = op /\ trace[i].args[1] = name}
    IN trace[CHOOSE i \in at : \A j \in at : j <= i].args[2]

\* the names the builder op was called for
NamesFor(trace, op) == {trace[i].args[1] : i \in {j \in DOMAIN trace : trace[j].op = op}}

\* a mapping of the registry, nil read as empty
RegistryOf(d, field) ==
    IF IsNil(d.Components) \/ IsNil(Val(d.Components)[field]) THEN EmptyMap
    ELSE Val(Val(d.Components)[field])

\* C27: AddComponents installs a registry of nine non-nil, empty mappings on a
\* Document that has none and leaves a Document that has one unchanged; after
\* any sequence of root builder calls the schemas and the security schemes of
\* the registry hold, for exactly the names AddSchema and AddSecurityScheme
\* were called for, the value of the last call for the name, and the other
\* seven mappings are empty.
C27_RegistryLazyNeverReset ==
    /\ last.op = "AddComponents" =>
          IF IsNil(last.pre.Components)
          THEN /\ doc = [last.pre EXCEPT !.Components = doc.Components]
               /\ ~IsNil(doc.Components)
               /\ Cardinality(DOMAIN Val(doc.Components)) = 9
               /\ \A field \in DOMAIN Val(doc.Components) :
                     Val(doc.Components)[field] = Some(EmptyMap)
          ELSE doc = last.pre
    /\ DOMAIN RegistryOf(doc, "Schemas") = NamesFor(last.trace, "AddSchema")
    /\ \A name \in NamesFor(last.trace, "AddSchema") :
          RegistryOf(doc, "Schemas")[name] = LastFor(last.trace, "AddSchema", name)
    /\ DOMAIN RegistryOf(doc, "SecuritySchemes") =
          NamesFor(last.trace, "AddSecurityScheme")
    /\ \A name \in NamesFor(last.trace, "AddSecurityScheme") :
          RegistryOf(doc, "SecuritySchemes")[name] =
              LastFor(last.trace, "AddSecurityScheme", name)
    /\ ~IsNil(doc.Components) =>
          \A field \in DOMAIN Val(doc.Components) \ {"Schemas", "SecuritySchemes"} :
              Val(doc.Components)[field] = Some(EmptyMap)

\* a schema is registered again under a name that has one, beside a security
\* scheme registered earlier
C27_Witness ==
    /\ last.op = "AddSchema"
    /\ last.args[1] \in DOMAIN RegistryOf(last.pre, "Schemas")
    /\ RegistryOf(last.pre, "Schemas")[last.args[1]] # last.args[2]
    /\ DOMAIN RegistryOf(doc, "SecuritySchemes") # {}

\* the Server, Tag and SecurityRequirement a call of the trace appends
EntryOf(c) ==
    CASE c.op = "AddServer" ->
            [URL |-> c.args[1], Description |-> c.args[2], Variables |-> Some(EmptyMap)]
      [] c.op = "AddTag" ->
            [Name |-> c.args[1], Description |-> c.args[2], ExternalDocs |-> Nil]
      [] c.op = "AddTagWithDocs" ->
            [Name |-> c.args[1], Description |-> c.args[2],
             ExternalDocs |-> Some([URL |-> c.args[3], Description |-> c.args[4]])]
      [] c.op = "AddSecurityRequirement" -> c.args[1]

\* the list the calls of the builders ops of the trace make, in call order
EntriesOf(trace, ops) ==
    [i \in 1 .. Len(CallsOf(trace, ops)) |-> EntryOf(CallsOf(trace, ops)[i])]

\* C29: after any sequence of root builder calls, Servers, Tags and Security
\* hold one entry for each AddServer, each AddTag or AddTagWithDocs and each
\* AddSecurityRequirement call, in call order and with the arguments of the
\* call, equal calls included; a call of another builder leaves the three
\* lists as they were.
C29_ListsAppendOnly ==
    /\ ListOf(doc.Servers) = EntriesOf(last.trace, {"AddServer"})
    /\ ListOf(doc.Tags) = EntriesOf(last.trace, {"AddTag", "AddTagWithDocs"})
    /\ ListOf(doc.Security) = EntriesOf(last.trace, {"AddSecurityRequirement"})
    /\ last.op # "AddServer" => doc.Servers = last.pre.Servers
    /\ last.op \notin {"AddTag", "AddTagWithDocs"} => doc.Tags = last.pre.Tags
    /\ last.op # "AddSecurityRequirement" => doc.Security = last.pre.Security

\* the same server added twice with another between, after which the list
\* has the three in call order
C29_Witness ==
    /\ Len(ListOf(doc.Servers)) = 3
    /\ ListOf(doc.Servers)[1] = ListOf(doc.Servers)[3]
    /\ ListOf(doc.Servers)[1].URL = "https://dev"
    /\ ListOf(doc.Servers)[2].URL = "https://api"

\* C30: after any sequence of root builder calls on NewDocument(title,
\* version), Info.Title is title and Info.Version is version.  WithInfo
\* changes Info.Description and Info.TermsOfService and nothing else of the
\* Document, WithContact sets Info.Contact to the given name, url and email
\* and changes nothing else, WithLicense sets Info.License to the given name
\* and url and changes nothing else, and no other builder changes Info.
C30_InfoFieldsKept ==
    /\ doc.Info.Title = created.title
    /\ doc.Info.Version = created.version
    /\ last.op = "WithInfo" =>
          doc = [last.pre EXCEPT !.Info.Description = last.args[1],
                                 !.Info.TermsOfService = last.args[2]]
    /\ last.op = "WithContact" =>
          doc = [last.pre EXCEPT !.Info.Contact =
                    Some([Name |-> last.args[1], URL |-> last.args[2],
                          Email |-> last.args[3]])]
    /\ last.op = "WithLicense" =>
          doc = [last.pre EXCEPT !.Info.License =
                    Some([Name |-> last.args[1], URL |-> last.args[2]])]
    /\ last.op \notin {"NewDocument", "WithInfo", "WithContact", "WithLicense"} =>
          doc.Info = last.pre.Info

\* WithLicense on a Document that has a description and a contact
C30_Witness ==
    /\ last.op = "WithLicense"
    /\ calls = 3
    /\ doc.Info.Description = "An API"
    /\ doc.Info.Contact = Some([Name |-> "Bob", URL |-> "", Email |-> "ann@example.com"])
    /\ doc.Info.License = Some([Name |-> "MIT", URL |-> "https://mit"])
    /\ doc.Info.Title = "Test API"

====
